---- MODULE Spec2Model ----
(***************************************************************************)
(* Proofscape server: the module build pipeline (pfsc/build/__init__.py)   *)
(* and the versioned graph index written by the graph writers              *)
(* (pfsc/gdb/cypher/writer.py, pfsc/gdb/gremlin/writer.py), the module     *)
(* loader (pfsc/lang/modules.py) and the manifest.                         *)
(*                                                                         *)
(* SpecIndex    : the index of one repo under WIP builds, releases,        *)
(*                repeated releases, moves and WIP cleanups.               *)
(* SpecRetarget : a repo of theorems and a repo of proofs of them: moves   *)
(*                and retargets.                                           *)
(* SpecTx       : index updates that fail in a phase, with and without     *)
(*                transactions.                                            *)
(* SpecBuild    : one Builder, its calls taken step by step: build,        *)
(*                update_index, write_all, declare_complete.               *)
(* SpecCache    : load_module and its cache: one module under every cache  *)
(*                policy while time passes and its file changes.           *)
(* SpecImport   : load_module and imports within a repo, cycles included.  *)
(* SpecRelease  : builds of a repo whose module imports from another repo, *)
(*                at WIP and at a release, with the module cache.          *)
(* SpecRootDecl : check_root_declarations for any root module or none.     *)
(* SpecManifest : a Manifest (pfsc/build/manifest.py) under merges of the  *)
(*                Manifests of later builds, and its dictionary form.      *)
(* SpecDeducs, SpecOrigins, SpecParse, SpecGraceful, SpecChunker,          *)
(* SpecStripper, SpecLock: the deductions of a build, their origins, the   *)
(*                parser's passes over a module text, and the locks of     *)
(*                the RepoLoader.                                          *)
(* SpecEdit     : load_module while the module's file is rewritten.        *)
(* SpecReimport : load_module while the file of an imported module is      *)
(*                rewritten.                                               *)
(* SpecTop      : the top-level entities of a module text.                 *)
(***************************************************************************)
EXTENDS Integers, Sequences, FiniteSets, TLC

\* ------------------------------------------------------------------ bounds
\* Release majors are 0..MaxMajor.
MaxMajor == 2
\* At most MaxRebuilds releases repeat a major that is already released.
MaxRebuilds == 1

\* ------------------------------------------------------- sentinel versions
\* pfsc.constants.WIP_TAG and INF_TAG: as values of `major` and `cut` they
\* order above every release major, WIP below infinity.
WIP_TAG == MaxMajor + 1
INF_TAG == MaxMajor + 2
\* A property a node or relation does not carry (a comparison with it fails).
NoProp == 0 - 1

Majors == 0..MaxMajor
Versions == Majors \cup {WIP_TAG}

\* ------------------------------------------------------------- the library
\* Two repos of one module each: a.b defines entities, c.d an enrichment
\* (`deduc Pf of ...`) that targets an entity of a.b at a dependency version.
Repos == {"a.b", "c.d"}
EntityLibpaths == {"a.b.Thm", "a.b.Theorem"}
EnrichmentLibpaths == {"c.d.Pf"}
Libpaths == EntityLibpaths \cup EnrichmentLibpaths
RepoOf(lp) == IF lp \in EntityLibpaths THEN "a.b" ELSE "c.d"
LibpathsOf(repo) == {lp \in Libpaths : RepoOf(lp) = repo}
\* The destination of a move mapping entry `src: None`.
NoneDst == "None"

VARIABLES
    gdb,                \* the graph store: [nodes, edges]
    use_transactions,   \* GremlinGraphWriter.use_transactions (Cypher: TRUE)
    rebuilds,           \* number of releases of an already released major
    content,            \* history: content[repo][M] = libpaths of the last release of major M
    partial,            \* history: an index update failed without rollback
    last,               \* history: the last graph operation and how it ended
    pc,                 \* the Builder call in progress: the step it is at
    builder,            \* the Builder instance: have_built, modules, mii, ...
    worktree,           \* the repository's working tree: [head, stack]
    build_dir,          \* the written artifacts, each with the build it is of
    monitor,            \* BuildMonitor: [message, cur_count, num_modules]
    call,               \* history: the current call of the Builder's API
    fs,                 \* the working trees: fs[modpath] = [exists, text, mtime]
    released,           \* the indexed releases and their module sources
    cache,              \* _MODULE_CACHE: cache[verspath] = [read_time, module]
    frames,             \* the load_module calls in progress, innermost last
    hists,              \* the `history` lists of the calls in progress
    clock,              \* the time, in ticks
    ldr,                \* history: the outermost load_module call and its result
    rb,                 \* Builder.build as the loader sees it: the loads it makes
    mf,                 \* a Manifest and the tree nodes there are
    mlast,              \* history: the last operation on the Manifest
    dx,                 \* the deductions of a build and their add_deduc calls
    og,                 \* the origins the last build computed, and history
    px,                 \* a module text and what the parser's passes made of it
    rq                  \* the requests in progress, their locks, and the repos

ivars == <<use_transactions, rebuilds, content, partial, last>>
bvars == <<pc, builder, worktree, build_dir, monitor, call>>
lvars == <<fs, released, cache, frames, hists, clock, ldr>>
\* The variables of the libraries the Builder uses: loader and manifest.
mvars == <<mf, mlast>>
\* The variables of the other parts of a build.
tvars == <<dx, og, px, rq>>
libvars == <<lvars, rb, mvars, tvars>>
vars == <<gdb, use_transactions, rebuilds, content, partial, last,
          pc, builder, worktree, build_dir, monitor, call, libvars>>

NotBuilt == {"<not built>"}

\* ------------------------------------------------------------ graph basics
\* `WHERE s.major <= $v < s.cut` (Cypher), lp_covers (Gremlin).
Covers(n, v) == n.major <= v /\ v < n.cut

IsContent(n) == n.label \in {"DEDUC"}

Node(id, label, libpath, modpath, repopath, major, cut, version) ==
    [id |-> id, label |-> label, libpath |-> libpath, modpath |-> modpath,
     repopath |-> repopath, major |-> major, cut |-> cut, version |-> version]

Edge(type, tail, head, major, cut) ==
    [type |-> type, tail |-> tail, head |-> head, major |-> major, cut |-> cut]

EmptyGraph == [nodes |-> {}, edges |-> {}]

\* The db id of a new node: ids are opaque, so the next id is taken per
\* (name, major) rather than from one counter.
FreshId(nodes, name, major) ==
    <<name, major,
      Cardinality({n \in nodes : n.id[1] = name /\ n.id[2] = major})>>

\* DETACH DELETE: the nodes go, with every relation attached to them.
DetachDelete(g, doomed) ==
    LET ids == {n.id : n \in doomed}
    IN  [nodes |-> g.nodes \ doomed,
         edges |-> {e \in g.edges : e.tail \notin ids /\ e.head \notin ids}]

\* The db id of a relation: what does not change while it is cut and uncut.
RelnId(e) == <<e.type, e.tail, e.head, e.major>>

BuildChildren(g, U) ==
    {b \in g.nodes : \E e \in g.edges :
        e.type = "BUILD" /\ e.head = b.id /\ e.tail \in {u.id : u \in U}}

\* ------------------------------------------------- WIP cleanup operations
drop_all_nodes_under_module(g, modpath) ==
    LET U == {u \in g.nodes : u.modpath = modpath}
    IN  DetachDelete(g, U \cup BuildChildren(g, U))

\* MATCH (u {modpath: $modpath, major: $WIP}) OPTIONAL MATCH (u)-[:BUILD]->(b)
\* DETACH DELETE u, b
drop_wip_nodes_under_module(g, modpath) ==
    LET U == {u \in g.nodes : u.modpath = modpath /\ u.major = WIP_TAG}
    IN  DetachDelete(g, U \cup BuildChildren(g, U))

\* MATCH (u {cut: $WIP}) WHERE id(u) IN $ids SET u.cut = $inf
undo_wip_cut_nodes(g, node_db_ids) ==
    [g EXCEPT !.nodes =
        {IF n.id \in node_db_ids /\ n.cut = WIP_TAG
            THEN [n EXCEPT !.cut = INF_TAG] ELSE n : n \in g.nodes}]

\* MATCH ()-[r {cut: $WIP}]->() WHERE id(r) IN $ids SET r.cut = $inf
undo_wip_cut_relns(g, reln_db_ids) ==
    [g EXCEPT !.edges =
        {IF RelnId(e) \in reln_db_ids /\ e.cut = WIP_TAG
            THEN [e EXCEPT !.cut = INF_TAG] ELSE e : e \in g.edges}]

\* MATCH (u {repopath: $repopath}) WHERE u.major = $WIP OR u.version = $WIP
\* OPTIONAL MATCH (u)-[:BUILD]->(b) DETACH DELETE u, b
delete_full_wip_build(g, repopath) ==
    LET U == {u \in g.nodes : u.repopath = repopath
                 /\ (u.major = WIP_TAG \/ u.version = WIP_TAG)}
    IN  DetachDelete(g, U \cup BuildChildren(g, U))

\* --------------------------------------------------------- ModuleIndexInfo
\* The major of the latest release of the repo that has a VERSION node;
\* NoProp when the repo has no release yet.
current_maj_vers(g, repopath) ==
    LET ms == {n.version : n \in {v \in g.nodes : v.label = "VERSION"
                    /\ v.repopath = repopath /\ v.version \in Majors}}
    IN  IF ms = {} THEN NoProp ELSE CHOOSE m \in ms : \A k \in ms : k <= m

existing_k_nodes(g, modpath, cmv) ==
    {n \in g.nodes : IsContent(n) /\ n.modpath = modpath /\ Covers(n, cmv)}

existing_k_relns(g, modpath, cmv) ==
    {e \in g.edges : e.type = "TARGETS" /\ Covers(e, cmv)
        /\ \E n \in g.nodes : n.id = e.tail /\ n.modpath = modpath}

\* MII.compute_mm_closure: chase every source of the move mapping through
\* intermediate moves to its final destination or to None.
RECURSIVE Chase(_, _, _)
Chase(moves, lp, fuel) ==
    IF fuel = 0 \/ lp = NoneDst \/ ~(\E m \in moves : m[1] = lp) THEN lp
    ELSE Chase(moves, (CHOOSE m \in moves : m[1] = lp)[2], fuel - 1)

compute_mm_closure(moves) ==
    {<<m[1], Chase(moves, m[2], Cardinality(moves))>> : m \in moves}

MoveTarget(closure, lp) == (CHOOSE m \in closure : m[1] = lp)[2]

\* The accumulated index info of one build, after cut_add_validate():
\* V_cut are the existing live nodes under the rebuilt module (rebuilt or
\* moved), V_add the entities the build defines; likewise for relations.
MakeMII(g, repopath, version, defs, relns, moves) ==
    LET cmv == current_maj_vers(g, repopath)
        ex  == existing_k_nodes(g, repopath, cmv)
        cl  == compute_mm_closure(moves)
    IN  [repopath |-> repopath, modpath |-> repopath, version |-> version,
         major |-> version, current_maj_vers |-> cmv,
         existing_k_nodes |-> ex,
         existing_k_relns |-> existing_k_relns(g, repopath, cmv),
         move_mapping |-> moves, mm_closure |-> cl,
         V_cut |-> {n.id : n \in ex},
         V_add |-> defs,
         E_cut |-> {RelnId(e) : e \in existing_k_relns(g, repopath, cmv)},
         E_add |-> relns]

is_major_version_increment(g, repopath, version) ==
    version \in Majors /\ version > current_maj_vers(g, repopath)

\* cut_add_validate(), the validation: redefining an existing libpath in a
\* lower major than its current one is rejected.
Validate(g, mii) ==
    /\ mii.major >= mii.current_maj_vers
    /\ \A n \in g.nodes :
          (IsContent(n) /\ n.modpath = mii.modpath) => n.major <= mii.major

\* ------------------------------------------------------- indexing phases
NewNodeFor(nodes, lp, mii) ==
    Node(FreshId(nodes, lp, mii.major), "DEDUC", lp, mii.modpath, mii.repopath,
         mii.major, INF_TAG, NoProp)

RECURSIVE AddNodes(_, _, _)
AddNodes(nodes, lps, mii) ==
    IF lps = {} THEN nodes
    ELSE LET lp == CHOOSE x \in lps : TRUE
         IN  AddNodes(nodes \cup {NewNodeFor(nodes, lp, mii)}, lps \ {lp}, mii)

\* The TARGETS relations of k-relation k: from the tail entity as the build
\* defines it to the head entity that covers the head major.
RelnEdges(nodes, k, mii) ==
    {Edge("TARGETS", t.id, h.id, mii.major, INF_TAG) :
        t \in {n \in nodes : n.libpath = k.tail_libpath /\ Covers(n, k.tail_major)},
        h \in {n \in nodes : n.libpath = k.head_libpath /\ Covers(n, k.head_major)}}

\* indexing.ix002681: insert the new k-nodes with [major, inf), then the new
\* k-relations.
ix002681(g, mii) ==
    LET nodes == AddNodes(g.nodes, mii.V_add, mii)
    IN  [nodes |-> nodes,
         edges |-> g.edges \cup UNION {RelnEdges(nodes, k, mii) : k \in mii.E_add}]

ix0200_no_cut(g, mii) == ix002681(g, mii)

ix0200_delete(g, mii) ==
    ix002681(DetachDelete(g, {n \in g.nodes : n.id \in mii.V_cut}), mii)

\* GremlinGraphWriter.ix0200: set cut = major on the nodes of V_cut and the
\* relations of E_cut, then add the new nodes and relations.
ix0200(g, mii) ==
    LET cutN == {IF n.id \in mii.V_cut THEN [n EXCEPT !.cut = mii.major] ELSE n
                    : n \in g.nodes}
        cutE == {IF RelnId(e) \in mii.E_cut THEN [e EXCEPT !.cut = mii.major] ELSE e
                    : e \in g.edges}
    IN  ix002681([nodes |-> cutN, edges |-> cutE], mii)

\* MERGE (d:VOID): the singleton VOID node, made when it is first needed.
VoidNodes(nodes) == {n \in nodes : n.label = "VOID"}
MergeVoid(nodes) ==
    IF VoidNodes(nodes) # {} THEN nodes
    ELSE nodes \cup {Node(FreshId(nodes, "VOID", NoProp), "VOID", "", "", "", NoProp, NoProp, NoProp)}

\* CypherGraphWriter.ix0330, one (src, dst) of the move mapping.
MoveOne(g, mii, src, dst) ==
    LET S == {s \in g.nodes : s.libpath = src /\ Covers(s, mii.current_maj_vers)}
    IN  IF S = {} THEN g
        ELSE IF dst = NoneDst
        THEN LET nodes == MergeVoid(g.nodes)
             IN  [nodes |-> nodes,
                  edges |-> g.edges \cup
                     {Edge("MOVE", s.id, d.id, NoProp, NoProp) :
                         s \in S, d \in VoidNodes(nodes)}]
        ELSE [g EXCEPT !.edges = @ \cup
                {Edge("MOVE", s.id, d.id, NoProp, NoProp) :
                    s \in S,
                    d \in {n \in g.nodes : n.libpath = dst /\ n.major = mii.major}}]

RECURSIVE MoveAll(_, _, _)
MoveAll(g, mii, items) ==
    IF items = {} THEN g
    ELSE LET m == CHOOSE x \in items : TRUE
         IN  MoveAll(MoveOne(g, mii, m[1], m[2]), mii, items \ {m})

ix0330(g, mii) == MoveAll(g, mii, mii.move_mapping)

\* GraphReader.find_move_conjugate_chain: the images of the entity (libpath,
\* major) under successive moves.
RECURSIVE MoveReach(_, _)
MoveReach(g, ids) ==
    LET next == ids \cup {e.head : e \in {x \in g.edges :
                                x.type = "MOVE" /\ x.tail \in ids}}
    IN  IF next = ids THEN ids ELSE MoveReach(g, next)

MoveImages(g, id) ==
    {n \in g.nodes : n.label # "VOID"
        /\ n.id \in MoveReach(g, {e.head : e \in {x \in g.edges :
                                    x.type = "MOVE" /\ x.tail = id}})}

find_move_conjugate_chain(g, libpath, major) ==
    UNION {MoveImages(g, n.id) :
              n \in {x \in g.nodes : x.libpath = libpath /\ Covers(x, major)}}

\* CypherGraphWriter.ix0360 (1): enrichments the build has added.
RetargetNew(g, new_targeting_relns) ==
    UNION {{Edge("RETARGETS", e.id, mc.id, NoProp, NoProp) :
              e \in {n \in g.nodes : n.libpath = k.tail_libpath
                                        /\ Covers(n, k.tail_major)},
              mc \in find_move_conjugate_chain(g, k.head_libpath, k.head_major)}
           : k \in new_targeting_relns}

NodeById(g, id) == CHOOSE n \in g.nodes : n.id = id

RetargetTargetsOnly(g, mii) ==
    LET ids == {n.id : n \in {x \in mii.existing_k_nodes :
                   \E m \in mii.mm_closure : m[1] = x.libpath /\ m[2] # NoneDst}}
        res == {<<e.tail, NodeById(g, e.head).libpath>> :
                   e \in {x \in g.edges : x.type = "TARGETS" /\ x.head \in ids}}
        pairs == {<<p[1], MoveTarget(mii.mm_closure, p[2])>> : p \in res}
    IN  UNION {{Edge("RETARGETS", p[1], r.id, NoProp, NoProp) :
                  r \in {n \in g.nodes : n.libpath = p[2] /\ Covers(n, mii.major)}}
               : p \in pairs}

\* CypherGraphWriter.ix0360 (2): existing enrichments on anything moved.
RetargetExisting(g, mii) ==
    LET ids == {n.id : n \in {x \in mii.existing_k_nodes :
                   \E m \in mii.mm_closure : m[1] = x.libpath /\ m[2] # NoneDst}}
        res == {<<e.tail, NodeById(g, e.head).libpath>> :
                   e \in {x \in g.edges : x.type \in {"TARGETS", "RETARGETS"}
                                            /\ x.head \in ids}}
        pairs == {<<p[1], MoveTarget(mii.mm_closure, p[2])>> : p \in res}
    IN  UNION {{Edge("RETARGETS", p[1], r.id, NoProp, NoProp) :
                  r \in {n \in g.nodes : n.libpath = p[2] /\ Covers(n, mii.major)}}
               : p \in pairs}

ix0360(g, mii, new_targeting_relns) ==
    LET g1 == [g EXCEPT !.edges = @ \cup RetargetNew(g, new_targeting_relns)]
    IN  [g1 EXCEPT !.edges = @ \cup RetargetExisting(g1, mii)]

\* CypherGraphWriter.ix0400: MERGE (v:VERSION {repopath, version}).
ix0400(g, mii) ==
    IF \E v \in g.nodes : v.label = "VERSION" /\ v.repopath = mii.repopath
                             /\ v.version = mii.version
    THEN g
    ELSE [g EXCEPT !.nodes = @ \cup
            {Node(FreshId(g.nodes, mii.repopath, mii.version), "VERSION", "", "", mii.repopath,
                  NoProp, NoProp, mii.version)}]

\* ------------------------------------------------------------ transactions
\* GremlinGraphWriter.new_transaction: the traversal source the phases write
\* to; its content at the start is the store's.
new_transaction(store) == store

\* commit_transaction: the written graph becomes (or already is) the store.
commit_transaction(store, work) == work

rollback_keeps_work(store, work) == work

\* rollback_transaction: with transactions the store is as before; without,
\* the phases wrote to the store directly and nothing is undone.
rollback_transaction(store, work) == IF use_transactions THEN store ELSE work

\* ------------------------------------------------------------ index_module
FailPoints == {"none", "ix0200", "ix0330", "ix0360", "ix0400"}

\* Undo a prior WIP build before a new one commences.
clear_wip_indexing(g, mii) ==
    undo_wip_cut_relns(
        undo_wip_cut_nodes(drop_wip_nodes_under_module(g, mii.modpath), mii.V_cut),
        mii.E_cut)

\* The graph the transaction holds when the phase failAt raises (the phases
\* before it have run), or after all phases when failAt = "none".
IndexPhases(store, mii, failAt) ==
    LET g1 == IF mii.major = WIP_TAG
                 THEN clear_wip_indexing(new_transaction(store), mii)
                 ELSE new_transaction(store)
        g2 == ix0200(g1, mii)
        g3 == ix0330(g2, mii)
        g4 == ix0360(g3, mii, mii.E_add)
        g5 == ix0400(g4, mii)
    IN  CASE failAt = "ix0200" -> g1
          [] failAt = "ix0330" -> g2
          [] failAt = "ix0360" -> g3
          [] failAt = "ix0400" -> g4
          [] OTHER -> g5

\* GraphWriter.index_module: all phases under one transaction; on failure
\* roll back, on success commit.
index_module(store, mii, failAt) ==
    IF failAt = "none"
    THEN commit_transaction(store, IndexPhases(store, mii, failAt))
    ELSE rollback_transaction(store, IndexPhases(store, mii, failAt))

\* ---------------------------------------------------------- build inputs
\* A change log's move mapping: only a major version increment over an
\* indexed release moves anything; each source is an entity of the current
\* release, each destination an entity the build defines, or None.
IsFunctional(mv) == \A a \in mv, b \in mv : a[1] = b[1] => a = b
IsFlat(mv) == \A a \in mv, b \in mv : a[2] # b[1]

MoveMappings(g, repo, version, defs) ==
    IF ~is_major_version_increment(g, repo, version)
          \/ current_maj_vers(g, repo) = NoProp
    THEN {{}}
    ELSE LET srcs == {n.libpath : n \in
                         existing_k_nodes(g, repo, current_maj_vers(g, repo))}
         IN  {mv \in SUBSET (srcs \X (defs \cup {NoneDst})) :
                 IsFunctional(mv) /\ IsFlat(mv)}

\* The targeting relations of the build: the enrichment targets one entity
\* of a.b at a dependency version at which the index has it; a release
\* build has no WIP dependency.
RelnChoices(g, repo, version, defs) ==
    LET heads == {<<h, dv>> \in EntityLibpaths \X Versions :
                     /\ \E n \in g.nodes : n.libpath = h /\ Covers(n, dv)
                     /\ (version \in Majors => dv \in Majors)}
    IN  IF defs \cap EnrichmentLibpaths = {} \/ heads = {} THEN {{}}
        ELSE {{[tail_libpath |-> t, tail_major |-> version,
                head_libpath |-> hd[1], head_major |-> hd[2]]} :
                 t \in defs \cap EnrichmentLibpaths, hd \in heads}

\* ------------------------------------------------------------ BuildMonitor
scan_count == 1000
build_count == 10000
write_count == 2000
index_count == 15000
max_count == scan_count + build_count + write_count + index_count

NewMonitor == [message |-> "Scanning...", cur_count |-> 0, num_modules |-> 1]

set_num_modules(m, n) ==
    [message |-> "Building...", cur_count |-> scan_count,
     num_modules |-> IF n = 0 THEN 1 ELSE n]

\* note_module_parsed and note_module_item_processed, over one module: a
\* tenth of count_per_module, then the other nine.
note_module_processed(m) ==
    [m EXCEPT !.cur_count = @ + (build_count \div m.num_modules)]

set_num_writes(m) ==
    [m EXCEPT !.message = "Writing to disk...",
              !.cur_count = scan_count + build_count]

note_write(m, n) == [m EXCEPT !.cur_count = @ + (write_count \div n)]

set_num_index_tasks(m) ==
    [m EXCEPT !.message = "Indexing...",
              !.cur_count = scan_count + build_count + write_count]

note_index_tasks_completed(m) == [m EXCEPT !.cur_count = @ + index_count]

declare_complete(m) == [m EXCEPT !.message = "Done", !.cur_count = max_count]

\* ----------------------------------------------------------------- checkout
\* `with checkout(repo_info, version):` the scope sees the repo at version;
\* leaving it, on any path, puts the repo back.
checkout_enter(r, version) ==
    [head |-> version, stack |-> Append(r.stack, r.head)]

checkout_exit(r) ==
    [head |-> r.stack[Len(r.stack)],
     stack |-> SubSeq(r.stack, 1, Len(r.stack) - 1)]

\* ------------------------------------------------------------------ Builder
\* At most NumModules modules are found by a walk, and the Builder's API is
\* called at most MaxCalls times.
NumModules == 2
MaxCalls == 2

Shapes == {"walking", "just_the_module", "nothing"}

\* Builder.__init__
NewBuilder(version, shape) ==
    [version |-> version, shape |-> shape, have_built |-> FALSE,
     modules |-> 0, mii |-> "new", timestamp |-> 0, manifest |-> 0]

NoArtifacts == [lib |-> 0, src |-> 0, manifest |-> 0, dg |-> 0, anno |-> 0]

NoCall ==
    [api |-> "none", force |-> FALSE, n |-> 0, error |-> "none",
     checkouts |-> 0, loads |-> 0, jobs |-> 0, done |-> 0, writes |-> 0,
     build_returned |-> FALSE, index_returned |-> FALSE,
     prior_build |-> FALSE, ran |-> {},
     pre |-> [gdb |-> EmptyGraph, build_dir |-> NoArtifacts, head |-> WIP_TAG,
              builder |-> NewBuilder(WIP_TAG, "nothing")]]

\* -------------------------------------------------------- module loader data
\* class CachePolicy
NEVER == 0
ALWAYS == 1
TIME == 2
CachePolicies == {NEVER, ALWAYS, TIME}

\* Time goes in ticks; a file's modification time is cut down to a whole
\* second where the file system does so, the read time never is.
TicksPerSec == 2
MaxClock == 3
\* The depth at which the interpreter gives up a recursion (RecursionError).
MaxDepth == 6

\* The modules: the root modules of the two repos and two submodules.
Modpaths == {"a.b", "a.b.m", "a.b.n", "c.d"}
get_repo_part(libpath) == IF libpath = "c.d" THEN "c.d" ELSE "a.b"
OtherRepo(repopath) == IF repopath = "a.b" THEN "c.d" ELSE "a.b"
\* The one numbered release a repo may have.
ReleaseV == 1
LoadVersions == {ReleaseV, WIP_TAG}

\* The text of a module, as far as loading goes: the modules its import
\* statements name, in order, and (in a root module) the version its
\* `dependencies` declare for the other repo, NoProp if none, and whether
\* it declares a `change_log`.
RootText(imports, deps, change_log) ==
    [imports |-> imports, deps |-> deps, change_log |-> change_log]
Text(imports, deps) == RootText(imports, deps, FALSE)
EmptyText == Text(<<>>, NoProp)
NoFile == [exists |-> FALSE, text |-> EmptyText, mtime |-> 0]
File(text, mtime) == [exists |-> TRUE, text |-> text, mtime |-> mtime]

\* PfscModule; None is NoModule. `imported` are the modules that its import
\* statements brought into it, with the modules these had imported.
Module(modpath, version, text, read_time) ==
    [modpath |-> modpath, version |-> version, text |-> text,
     read_time |-> read_time, represented_version |-> version,
     imported |-> {}]
NoModule == Module("", NoProp, EmptyText, NoProp)

\* `verspath = f'{modpath}@{version}'`; class CachedModule
verspath(modpath, version) == <<modpath, version>>
VersPaths == Modpaths \X LoadVersions
CachedModule(read_time, module) == [read_time |-> read_time, module |-> module]
NoEntry == CachedModule(NoProp, NoModule)
EmptyCache == [vp \in VersPaths |-> NoEntry]

\* A repo without a release, and the result of a call not made yet.
NoFiles == [m \in Modpaths |-> NoFile]
NoRelease == [indexed |-> FALSE, files |-> NoFiles]
NoResult == [kind |-> "none", code |-> "none", module |-> NoModule]
NoLoad ==
    [modpath |-> "", version |-> WIP_TAG, caching |-> TIME, given |-> FALSE,
     text |-> EmptyText, graceful |-> FALSE, reads |-> {}, pre |-> NoEntry, src |-> NoFile,
     cold |-> TRUE, loads |-> {}, ret |-> NoResult]

\* No loader at work: nothing on disk, nothing cached.
InitLoaderIdle ==
    /\ fs = NoFiles
    /\ released = [r \in Repos |-> NoRelease]
    /\ cache = EmptyCache
    /\ frames = <<>>
    /\ hists = <<>>
    /\ clock = 0
    /\ ldr = NoLoad

\* No Builder at work: the state of the Builder's variables in the
\* specifications of the graph writer alone.
InitIdle ==
    /\ pc = "idle"
    /\ builder = NewBuilder(WIP_TAG, "nothing")
    /\ worktree = [head |-> WIP_TAG, stack |-> <<>>]
    /\ build_dir = NoArtifacts
    /\ monitor = NewMonitor
    /\ call = NoCall

\* No build that loads modules, and no Manifest.
NoRelBuild ==
    [phase |-> "idle", version |-> WIP_TAG, caching |-> TIME, jobs |-> <<>>,
     loads |-> {}, modules |-> {}, error |-> "none", root |-> NoFile,
     is_major_inc |-> FALSE]
NoManifest == <<>>
NoMerge == <<>>
InitManifestIdle == mf = NoManifest /\ mlast = NoMerge

\* No deductions handled.
NoDeducs == <<>>
NoOrigins == <<>>
\* No text being parsed.
NoParse == <<>>
\* No request being served.
NoRequests == <<>>
InitOthersIdle ==
    dx = NoDeducs /\ og = NoOrigins /\ px = NoParse /\ rq = NoRequests

\* Neither a Builder nor a loader at work.
InitLibIdle ==
    InitLoaderIdle /\ rb = NoRelBuild /\ InitManifestIdle /\ InitOthersIdle

\* ----------------------------------------------------------------- actions
InitGraphIdle ==
    /\ InitIdle
    /\ gdb = EmptyGraph
    /\ rebuilds = 0
    /\ content = [r \in Repos |-> [m \in Majors |-> NotBuilt]]
    /\ partial = FALSE
    /\ last = [op |-> "init", wip |-> FALSE, ok |-> TRUE, dirty |-> FALSE]

\* The index alone: no Builder and no loader at work.
InitGraph == InitGraphIdle /\ InitLibIdle

\* A release of the current major again (vM.m.p after vM.m'.p') leaves one
\* more cut node per libpath: MaxRebuilds bounds how often that happens.
\* Releases of a higher major and WIP builds are unbounded.
CountsAsRebuild(repo, version) ==
    version \in Majors /\ version = current_maj_vers(gdb, repo)

\* Builder.update_index after a build whose cut_add_validate() passed, as
\* far as the index goes.
UpdateIndexOf(repo, version, defs, relns, moves, failAt) ==
    LET mii  == MakeMII(gdb, repo, version, defs, relns, moves)
        work == IndexPhases(gdb, mii, failAt)
    IN  /\ ~partial
        /\ CountsAsRebuild(repo, version) => rebuilds < MaxRebuilds
        /\ Validate(gdb, mii)
        /\ gdb' = index_module(gdb, mii, failAt)
        /\ rebuilds' = IF CountsAsRebuild(repo, version) /\ gdb' # gdb
                         THEN rebuilds + 1 ELSE rebuilds
        /\ content' = IF failAt = "none" /\ version \in Majors
                        THEN [content EXCEPT ![repo][version] = defs]
                        ELSE content
        /\ partial' = (failAt # "none" /\ gdb' # gdb)
        /\ last' = [op |-> "index_module", wip |-> (version = WIP_TAG),
                    ok |-> (failAt = "none"), dirty |-> (work # gdb)]
        /\ UNCHANGED use_transactions
        /\ UNCHANGED bvars

IndexBuild(repo, version, defs, relns, moves, failAt) ==
    /\ UpdateIndexOf(repo, version, defs, relns, moves, failAt)
    /\ UNCHANGED libvars

GraphWriterDeleteFullWipBuild(repo) ==
    /\ ~partial
    /\ \E u \in gdb.nodes : u.repopath = repo
          /\ (u.major = WIP_TAG \/ u.version = WIP_TAG)
    /\ gdb' = delete_full_wip_build(gdb, repo)
    /\ last' = [op |-> "delete_full_wip_build", wip |-> TRUE, ok |-> TRUE,
                dirty |-> FALSE]
    /\ UNCHANGED <<use_transactions, rebuilds, content, partial>>
    /\ UNCHANGED bvars

DeleteFullWipBuild(repo) ==
    GraphWriterDeleteFullWipBuild(repo) /\ UNCHANGED libvars

\* The entities a build of the repository defines: one per build.
DefChoices(repo) == {{lp} : lp \in LibpathsOf(repo)}

\* The builds of the repositories RS at the versions VS, with index updates
\* failing at the phases FS; the repositories RB release a major again.
IndexStep(RS, VS, FS, RB) ==
    \/ \E repo \in RS, failAt \in FS :
         \E version \in VS[repo], defs \in DefChoices(repo) :
           \E relns \in RelnChoices(gdb, repo, version, defs),
              moves \in MoveMappings(gdb, repo, version, defs) :
                /\ CountsAsRebuild(repo, version) => repo \in RB
                /\ IndexBuild(repo, version, defs, relns, moves, failAt)
    \/ \E repo \in RS : DeleteFullWipBuild(repo)

\* One repository, every build of it, no failure.
AllVersions == [repo \in Repos |-> Versions]
InitIndex == InitGraph /\ use_transactions = TRUE
NextIndex == IndexStep({"a.b"}, AllVersions, {"none"}, {"a.b"})
SpecIndex == InitIndex /\ [][NextIndex]_vars

\* A repository of theorems, released at ever higher majors, and a
\* repository of proofs of them, released once and built at WIP.
RetargetVersions ==
    [repo \in Repos |-> IF repo = "a.b" THEN Majors ELSE {0, WIP_TAG}]
NextRetarget == IndexStep(Repos, RetargetVersions, {"none"}, {})
SpecRetarget == InitIndex /\ [][NextRetarget]_vars

\* Two releases of the theorems, two releases and WIP builds of the proofs,
\* by a writer with or without transactions; an index update may fail in any
\* phase.
TxVersions ==
    [repo \in Repos |-> IF repo = "a.b" THEN {0, 1} ELSE {0, 1, WIP_TAG}]
InitTx == InitGraph /\ use_transactions \in BOOLEAN
NextTx == IndexStep(Repos, TxVersions, FailPoints, {})
SpecTx == InitTx /\ [][NextTx]_vars

\* ---------------------------------------------------------- Builder steps
\* The repository the Builder builds, and what its modules define.
BuilderRepo == "a.b"
BuilderDefs(b) == IF b.modules = 0 THEN {} ELSE {"a.b.Thm"}

\* self.mii as update_index() hands it to the graph writer: the cuts and
\* adds are there once cut_add_validate() has run.
BuilderMII(g, b) ==
    LET mii == MakeMII(g, BuilderRepo, b.version, BuilderDefs(b), {}, {})
    IN  IF b.mii \in {"validated", "origins"} THEN mii
        ELSE [mii EXCEPT !.V_cut = {}, !.E_cut = {}, !.V_add = {}]

always_build(force, have_built) == TRUE

\* `if force or not self.have_built:`
should_build(force, have_built) == force \/ ~have_built

write_before_index(step) ==
    CASE step = "build" -> "write_all"
      [] step = "write_all" -> "update_index"
      [] step = "update_index" -> "declare_complete"
      [] OTHER -> "idle"

\* Builder.build_write_index: the step that follows each step.
build_write_index(step) ==
    CASE step = "build" -> "update_index"
      [] step = "update_index" -> "write_all"
      [] step = "write_all" -> "declare_complete"
      [] OTHER -> "idle"

\* Where the call goes on when a step of it has returned.
Continue(api, step) ==
    IF api = "build_write_index" THEN build_write_index(step) ELSE "idle"

StartCall(api, force) ==
    /\ pc = "idle"
    /\ call.n < MaxCalls
    /\ pc' = "build"
    /\ call' = [NoCall EXCEPT !.api = api, !.force = force, !.n = call.n + 1,
                   !.prior_build = call.prior_build \/ call.build_returned,
                   !.pre = [gdb |-> gdb, build_dir |-> build_dir,
                            head |-> worktree.head, builder |-> builder]]
    /\ UNCHANGED <<gdb, ivars, builder, worktree, build_dir, monitor>>
    /\ UNCHANGED libvars

Build ==
    /\ pc = "build"
    /\ IF should_build(call.force, builder.have_built)
         THEN /\ worktree' = checkout_enter(worktree, builder.version)
              /\ pc' = "check_root_declarations"
              /\ call' = [call EXCEPT !.checkouts = @ + 1]
         ELSE /\ pc' = Continue(call.api, "build")
              /\ call' = [call EXCEPT !.build_returned = TRUE]
              /\ UNCHANGED worktree
    /\ UNCHANGED <<gdb, ivars, builder, build_dir, monitor>>
    /\ UNCHANGED libvars

\* check_root_declarations loads the root module; it raises when the load
\* does, when a change log is missing, or on a WIP dependency of a release.
CheckRootDeclarations(fail) ==
    /\ pc = "check_root_declarations"
    /\ call' = [call EXCEPT !.loads = @ + 1,
                            !.error = IF fail THEN "root" ELSE @]
    /\ IF fail
         THEN /\ pc' = "idle"
              /\ worktree' = checkout_exit(worktree)
              /\ UNCHANGED builder
         ELSE /\ pc' = "compute_mm_closure"
              /\ builder' = [builder EXCEPT !.mii = "change_log"]
              /\ UNCHANGED worktree
    /\ UNCHANGED <<gdb, ivars, build_dir, monitor>>
    /\ UNCHANGED libvars

ComputeMmClosure ==
    /\ pc = "compute_mm_closure"
    /\ builder' = [builder EXCEPT !.mii = "closure"]
    /\ CASE builder.shape = "walking" ->
              /\ pc' = "walk"
              /\ UNCHANGED <<worktree, call, monitor>>
         [] builder.shape = "just_the_module" ->
              /\ pc' = "handle_pfsc_module"
              /\ monitor' = set_num_modules(monitor, 1)
              /\ call' = [call EXCEPT !.jobs = 1]
              /\ UNCHANGED worktree
         [] OTHER ->
              /\ pc' = Continue(call.api, "build")
              /\ worktree' = checkout_exit(worktree)
              /\ call' = [call EXCEPT !.build_returned = TRUE]
              /\ UNCHANGED monitor
    /\ UNCHANGED <<gdb, ivars, build_dir>>
    /\ UNCHANGED libvars

\* Builder.walk, up to its loop over the jobs: n modules are found.
Walk(n) ==
    /\ pc = "walk"
    /\ monitor' = set_num_modules(monitor, n)
    /\ call' = [call EXCEPT !.jobs = n]
    /\ pc' = IF n = 0 THEN "cut_add_validate" ELSE "handle_pfsc_module"
    /\ UNCHANGED <<gdb, ivars, builder, worktree, build_dir>>
    /\ UNCHANGED libvars

HandleAndGoOn(fail) ==
    /\ pc = "handle_pfsc_module"
    /\ call.jobs > 0
    /\ call' = [call EXCEPT !.loads = @ + 1, !.jobs = @ - 1, !.done = @ + 1,
                            !.error = IF fail THEN "module" ELSE @]
    /\ pc' = IF call.jobs = 1 THEN "cut_add_validate" ELSE pc
    /\ builder' = [builder EXCEPT
                      !.modules = IF call.done + 1 > @ THEN call.done + 1 ELSE @,
                      !.mii = "modules"]
    /\ monitor' = note_module_processed(monitor)
    /\ UNCHANGED <<gdb, ivars, build_dir, worktree>>
    /\ UNCHANGED libvars

\* Builder.handle_pfsc_module on the next job of the walk: the module is
\* loaded and processed, or an exception leaves build() through its
\* checkout scope.
HandlePfscModule(fail) ==
    /\ pc = "handle_pfsc_module"
    /\ call.jobs > 0
    /\ IF fail
         THEN /\ call' = [call EXCEPT !.loads = @ + 1, !.error = "module"]
              /\ pc' = "idle"
              /\ worktree' = checkout_exit(worktree)
              /\ UNCHANGED <<builder, monitor>>
         ELSE /\ call' = [call EXCEPT !.loads = @ + 1, !.jobs = @ - 1,
                                      !.done = @ + 1]
              /\ pc' = IF call.jobs = 1 THEN "cut_add_validate" ELSE pc
              /\ builder' = [builder EXCEPT
                    !.modules = IF call.done + 1 > @ THEN call.done + 1 ELSE @,
                    !.mii = "modules"]
              /\ monitor' = note_module_processed(monitor)
              /\ UNCHANGED worktree
    /\ UNCHANGED <<gdb, ivars, build_dir>>
    /\ UNCHANGED libvars

CutAddValidate ==
    /\ pc = "cut_add_validate"
    /\ IF Validate(gdb, MakeMII(gdb, BuilderRepo, builder.version,
                                BuilderDefs(builder), {}, {}))
         THEN /\ pc' = "compute_origins"
              /\ builder' = [builder EXCEPT !.mii = "validated"]
              /\ call' = [call EXCEPT !.ran = @ \cup {"cut_add_validate"}]
              /\ UNCHANGED worktree
         ELSE /\ pc' = "idle"
              /\ call' = [call EXCEPT !.error = "validate",
                                      !.ran = @ \cup {"cut_add_validate"}]
              /\ worktree' = checkout_exit(worktree)
              /\ UNCHANGED builder
    /\ UNCHANGED <<gdb, ivars, build_dir, monitor>>
    /\ UNCHANGED libvars

\* here_elsewhere_nowhere, compute_origins, inject_origins
ComputeOrigins ==
    /\ pc = "compute_origins"
    /\ pc' = "merge_manifests"
    /\ builder' = [builder EXCEPT !.mii = "origins"]
    /\ call' = [call EXCEPT !.ran = @ \cup {"compute_origins"}]
    /\ UNCHANGED <<gdb, ivars, worktree, build_dir, monitor>>
    /\ UNCHANGED libvars

\* timestamp, set_build_info, merge_manifests, have_built = True
MergeManifests ==
    /\ pc = "merge_manifests"
    /\ builder' = [builder EXCEPT !.timestamp = call.n, !.manifest = call.n,
                                  !.have_built = TRUE]
    /\ worktree' = checkout_exit(worktree)
    /\ pc' = Continue(call.api, "build")
    /\ call' = [call EXCEPT !.build_returned = TRUE,
                            !.ran = @ \cup {"merge_manifests"}]
    /\ UNCHANGED <<gdb, ivars, build_dir, monitor>>
    /\ UNCHANGED libvars

\* Builder.update_index: setup_monitor, then index_module.
UpdateIndex(failAt) ==
    /\ pc = "update_index"
    /\ gdb' = index_module(gdb, BuilderMII(gdb, builder), failAt)
    /\ IF failAt = "none"
         THEN /\ pc' = Continue(call.api, "update_index")
              /\ call' = [call EXCEPT !.index_returned = TRUE]
              /\ monitor' = note_index_tasks_completed(set_num_index_tasks(monitor))
         ELSE /\ pc' = "idle"
              /\ call' = [call EXCEPT !.error = "index"]
              /\ monitor' = set_num_index_tasks(monitor)
    /\ UNCHANGED <<ivars, builder, worktree, build_dir>>
    /\ UNCHANGED libvars

WriteAllUnscoped ==
    /\ pc = "write_all"
    /\ worktree' = [worktree EXCEPT !.stack = Append(@, worktree.head)]
    /\ call' = [call EXCEPT !.checkouts = @ + 1]
    /\ monitor' = set_num_writes(monitor)
    /\ pc' = "clear_build_dirs"
    /\ UNCHANGED <<gdb, ivars, builder, build_dir>>
    /\ UNCHANGED libvars

\* write_all, up to clear_build_dirs.
WriteAll ==
    /\ pc = "write_all"
    /\ worktree' = checkout_enter(worktree, builder.version)
    /\ call' = [call EXCEPT !.checkouts = @ + 1]
    /\ monitor' = set_num_writes(monitor)
    /\ pc' = "clear_build_dirs"
    /\ UNCHANGED <<gdb, ivars, builder, build_dir>>
    /\ UNCHANGED libvars

\* Builder.clear_build_dirs: the build products of each built module go.
clear_build_dirs(d, b) ==
    IF b.modules = 0 THEN d ELSE [d EXCEPT !.src = 0, !.dg = 0, !.anno = 0]

ClearBuildDirs(fail) ==
    /\ pc = "clear_build_dirs"
    /\ IF fail
         THEN /\ pc' = "idle"
              /\ call' = [call EXCEPT !.error = "write"]
              /\ worktree' = checkout_exit(worktree)
              /\ UNCHANGED build_dir
         ELSE /\ build_dir' = clear_build_dirs(build_dir, builder)
              /\ pc' = IF builder.version = WIP_TAG
                         THEN "write_built_modules_to_lib_dir"
                         ELSE "write_built_modules_to_build_dir"
              /\ UNCHANGED <<worktree, call>>
    /\ UNCHANGED <<gdb, ivars, builder, monitor>>
    /\ UNCHANGED libvars

WriteSteps ==
    {"write_built_modules_to_lib_dir", "write_built_modules_to_build_dir",
     "write_manifest", "write_dashgraphs", "write_notespages"}

\* write_all: the write that follows each write.
NextWrite(step) ==
    CASE step = "write_built_modules_to_lib_dir" -> "write_built_modules_to_build_dir"
      [] step = "write_built_modules_to_build_dir" -> "write_manifest"
      [] step = "write_manifest" -> "write_dashgraphs"
      [] step = "write_dashgraphs" -> "write_notespages"
      [] OTHER -> "return"

nothing_written(d, step, b) == d

\* What each write leaves in the build directory: the products of the
\* Builder's modules carry its timestamp, the manifest its build info.
Written(d, step, b) ==
    CASE step = "write_manifest" -> [d EXCEPT !.manifest = b.manifest]
      [] b.modules = 0 -> d
      [] step = "write_built_modules_to_lib_dir" -> [d EXCEPT !.lib = b.timestamp]
      [] step = "write_built_modules_to_build_dir" -> [d EXCEPT !.src = b.timestamp]
      [] step = "write_dashgraphs" -> [d EXCEPT !.dg = b.timestamp]
      [] OTHER -> [d EXCEPT !.anno = b.timestamp]

WriteStep(fail) ==
    /\ pc \in WriteSteps
    /\ IF fail
         THEN /\ pc' = "idle"
              /\ call' = [call EXCEPT !.error = "write"]
              /\ worktree' = checkout_exit(worktree)
              /\ UNCHANGED <<build_dir, monitor>>
         ELSE /\ build_dir' = Written(build_dir, pc, builder)
              /\ call' = [call EXCEPT !.writes = @ + 1]
              /\ monitor' = note_write(monitor, Cardinality(WriteSteps))
              /\ IF NextWrite(pc) = "return"
                   THEN /\ pc' = Continue(call.api, "write_all")
                        /\ worktree' = checkout_exit(worktree)
                   ELSE /\ pc' = NextWrite(pc)
                        /\ UNCHANGED worktree
    /\ UNCHANGED <<gdb, ivars, builder>>
    /\ UNCHANGED libvars

DeclareComplete ==
    /\ pc = "declare_complete"
    /\ monitor' = declare_complete(monitor)
    /\ pc' = "idle"
    /\ UNCHANGED <<gdb, ivars, builder, worktree, build_dir, call>>
    /\ UNCHANGED libvars

\* A Builder of release 0 or of WIP, on an empty index or on one that has
\* release 1 of the repository; the working tree is at WIP or at a release;
\* the build directory is empty or has what an earlier Builder wrote for
\* the repo and version.
EarlierBuild == 0 - 1
EarlierArtifacts == [a \in DOMAIN NoArtifacts |-> EarlierBuild]
ReleasedGraph ==
    index_module(EmptyGraph,
                 MakeMII(EmptyGraph, BuilderRepo, 1, {"a.b.Thm"}, {}, {}), "none")

InitBuild ==
    /\ gdb \in {EmptyGraph, ReleasedGraph}
    /\ use_transactions \in BOOLEAN
    /\ rebuilds = 0
    /\ content = [r \in Repos |-> [m \in Majors |-> NotBuilt]]
    /\ partial = FALSE
    /\ last = [op |-> "init", wip |-> FALSE, ok |-> TRUE, dirty |-> FALSE]
    /\ pc = "idle"
    /\ builder \in {NewBuilder(v, sh) : v \in {0, WIP_TAG}, sh \in Shapes}
    /\ worktree \in {[head |-> h, stack |-> <<>>] : h \in {1, WIP_TAG}}
    /\ build_dir \in {NoArtifacts, EarlierArtifacts}
    /\ monitor = NewMonitor
    /\ call = NoCall
    /\ InitLibIdle

NextBuild ==
    \/ \E api \in {"build", "build_write_index"}, force \in BOOLEAN :
          StartCall(api, force)
    \/ Build
    \/ \E fail \in BOOLEAN : CheckRootDeclarations(fail)
    \/ ComputeMmClosure
    \/ \E n \in 0..NumModules : Walk(n)
    \/ \E fail \in BOOLEAN : HandlePfscModule(fail)
    \/ CutAddValidate
    \/ ComputeOrigins
    \/ MergeManifests
    \/ \E failAt \in FailPoints : UpdateIndex(failAt)
    \/ WriteAll
    \/ \E fail \in BOOLEAN : ClearBuildDirs(fail)
    \/ \E fail \in BOOLEAN : WriteStep(fail)
    \/ DeclareComplete

SpecBuild == InitBuild /\ [][NextBuild]_vars

\* ------------------------------------------------------------ module loader
\* self.dependencies is None: the dependency info is not loaded yet.
NotLoaded == 0 - 2

\* One call of load_module: its arguments, and how far it has come.
Frame(modpath, version, caching, graceful, h, given, text) ==
    [modpath |-> modpath, version |-> version, caching |-> caching,
     graceful |-> graceful, h |-> h, given |-> given, text |-> text,
     pc |-> "enter", read_time |-> NoProp, todo |-> <<>>,
     deps |-> NotLoaded, wait |-> "none", imported |-> {}]

Top == frames[Len(frames)]
Rest == SubSeq(frames, 1, Len(frames) - 1)

\* path_info.read_module(version) and pfsc_file_modification_time: the
\* working tree for WIP, the release's module sources otherwise.
SourceOf(modpath, version) ==
    IF version = WIP_TAG THEN fs[modpath]
    ELSE released[get_repo_part(modpath)].files[modpath]

version_is_already_indexed(repopath, version) ==
    version = ReleaseV /\ released[repopath].indexed

should_reload_by_time(text_given, caching, version, hit, t_m, t_r) ==
    IF text_given \/ caching = NEVER \/ ~hit THEN TRUE
    ELSE IF caching = ALWAYS THEN FALSE
    ELSE t_m + TicksPerSec >= t_r

should_reload_unboosted(text_given, caching, version, hit, t_m, t_r) ==
    IF text_given \/ caching = NEVER \/ ~hit THEN TRUE
    ELSE IF caching = ALWAYS THEN FALSE
    ELSE IF version # WIP_TAG THEN FALSE
    ELSE t_m >= t_r

\* load_module: "Now let's decide whether we're going to _reload_".
should_reload(text_given, caching, version, hit, t_m, t_r) ==
    IF text_given \/ caching = NEVER \/ ~hit THEN TRUE
    ELSE IF caching = ALWAYS THEN FALSE
    ELSE IF version # WIP_TAG THEN FALSE
    ELSE t_m + TicksPerSec >= t_r

\* An exception leaves every call in progress.
Raise(l, code) ==
    /\ frames' = <<>>
    /\ ldr' = [l EXCEPT !.ret = [kind |-> "raised", code |-> code,
                                 module |-> NoModule]]

\* A call returns: the outermost one to its caller, a load of the root
\* module to load_and_validate_dependency_info, any other to fromimport.
Return(l, value) ==
    IF Rest = <<>>
      THEN /\ frames' = <<>>
           /\ ldr' = [l EXCEPT !.ret = [kind |-> "returned", code |-> "none",
                                        module |-> value]]
      ELSE LET caller == Rest[Len(Rest)]
           IN  IF caller.wait = "deps"
                 THEN /\ frames' = [Rest EXCEPT ![Len(Rest)] =
                            [caller EXCEPT !.wait = "none",
                               !.deps = IF value = NoModule THEN NoProp
                                        ELSE value.text.deps]]
                      /\ ldr' = l
                 ELSE IF value = NoModule
                   THEN Raise(l, "MODULE_DOES_NOT_CONTAIN_OBJECT")
                   ELSE /\ frames' = [Rest EXCEPT ![Len(Rest)] =
                              [caller EXCEPT !.wait = "none", !.todo = Tail(@),
                                 !.imported = @ \cup value.imported
                                     \cup {verspath(value.modpath, value.version)}]]
                        /\ ldr' = l

\* fail() of load_module
Fail(l, graceful, force_excep) ==
    IF graceful /\ ~force_excep THEN Return(l, NoModule)
    ELSE Raise(l, "MODULE_HAS_NO_CONTENTS")

\* load_module is called from outside the loader.
Call(modpath, version, caching, given, text, graceful) ==
    /\ frames = <<>>
    /\ frames' = <<Frame(modpath, version, caching, graceful, 1, given, text)>>
    /\ hists' = <<<<>>>>
    /\ ldr' = [modpath |-> modpath, version |-> version, caching |-> caching,
               given |-> given, text |-> text, graceful |-> graceful,
               reads |-> {}, pre |-> cache[verspath(modpath, version)],
               src |-> SourceOf(modpath, version),
               cold |-> (cache = EmptyCache),
               loads |-> {verspath(modpath, version)}, ret |-> NoResult]
    /\ UNCHANGED <<fs, released, cache, clock>>

\* A call of load_module by a user of the loader other than the Builder.
LoadModule(modpath, version, caching, given, text, graceful) ==
    /\ Call(modpath, version, caching, given, text, graceful)
    /\ UNCHANGED <<gdb, ivars, bvars, rb, mvars, tvars>>

\* load_module up to build_module_from_text: the cache is used, or the
\* history is checked and extended and the text is read.
Enter ==
    /\ frames # <<>>
    /\ Top.pc = "enter"
    /\ LET f    == Top
           vp   == verspath(f.modpath, f.version)
           hit  == cache[vp] # NoEntry
           file == SourceOf(f.modpath, f.version)
           by_time == ~f.given /\ f.caching = TIME /\ hit /\ f.version = WIP_TAG
           read == [ldr EXCEPT !.reads = @ \cup {vp}]
           appended == [hists EXCEPT ![f.h] = Append(@, f.modpath)]
       IN  IF by_time /\ ~file.exists
             THEN Fail(ldr, f.graceful, FALSE) /\ UNCHANGED hists
           ELSE IF ~should_reload(f.given, f.caching, f.version, hit,
                                  file.mtime, cache[vp].read_time)
             THEN Return(ldr, cache[vp].module) /\ UNCHANGED hists
           ELSE IF \E i \in 1..Len(hists[f.h]) : hists[f.h][i] = f.modpath
             THEN Raise(ldr, "CYCLIC_IMPORT_ERROR") /\ UNCHANGED hists
           ELSE IF f.given
             THEN /\ frames' = [frames EXCEPT ![Len(frames)] =
                        [f EXCEPT !.pc = "build", !.todo = f.text.imports]]
                  /\ hists' = appended
                  /\ UNCHANGED ldr
           ELSE IF f.version # WIP_TAG
                   /\ ~version_is_already_indexed(get_repo_part(f.modpath), f.version)
             THEN Raise(ldr, "VERSION_NOT_BUILT_YET") /\ hists' = appended
           ELSE IF ~file.exists
             THEN Fail(ldr, f.graceful, f.version # WIP_TAG) /\ hists' = appended
           ELSE /\ frames' = [frames EXCEPT ![Len(frames)] =
                      [f EXCEPT !.pc = "build", !.text = file.text,
                                !.read_time = clock, !.todo = file.text.imports]]
                /\ hists' = appended
                /\ ldr' = read
    /\ UNCHANGED <<fs, released, cache, clock>>
    /\ UNCHANGED <<gdb, ivars, bvars, rb, mvars, tvars>>

\* PfscModule.load_and_validate_dependency_info, at the first import of the
\* module: a root module reads its own declaration, any other module loads
\* the root module of its repo, with a history of its own.
DependencyInfo ==
    /\ frames # <<>>
    /\ Top.pc = "build" /\ Top.wait = "none"
    /\ Top.todo # <<>> /\ Top.deps = NotLoaded
    /\ LET f == Top
           repopath == get_repo_part(f.modpath)
       IN  IF f.modpath = repopath
             THEN /\ frames' = [frames EXCEPT ![Len(frames)] =
                        [f EXCEPT !.deps = f.text.deps]]
                  /\ UNCHANGED <<hists, ldr>>
           ELSE IF Len(frames) >= MaxDepth
             THEN Raise(ldr, "RecursionError") /\ UNCHANGED hists
           ELSE /\ frames' = Append([frames EXCEPT ![Len(frames)] =
                                        [f EXCEPT !.wait = "deps"]],
                                    Frame(repopath, f.version, TIME, TRUE,
                                          Len(hists) + 1, FALSE, EmptyText))
                /\ hists' = Append(hists, <<>>)
                /\ ldr' = [ldr EXCEPT !.loads = @ \cup {verspath(repopath, f.version)}]
    /\ UNCHANGED <<fs, released, cache, clock>>
    /\ UNCHANGED <<gdb, ivars, bvars, rb, mvars, tvars>>

\* PfscModule.getRequiredVersionOfObject, the dependency info being loaded.
NoVersion == 0 - 3
getRequiredVersionOfObject(f, libpath) ==
    IF get_repo_part(libpath) = get_repo_part(f.modpath) THEN f.version
    ELSE IF f.deps = NoProp THEN NoVersion
    ELSE f.deps

\* ModuleLoader.fromimport on the next import statement of the module.
Import ==
    /\ frames # <<>>
    /\ Top.pc = "build" /\ Top.wait = "none"
    /\ Top.todo # <<>> /\ Top.deps # NotLoaded
    /\ LET f == Top
           modpath == Head(f.todo)
           version == getRequiredVersionOfObject(f, modpath)
       IN  IF version = NoVersion
             THEN Raise(ldr, "MISSING_REPO_DEPENDENCY_INFO")
           ELSE IF modpath = f.modpath
             THEN Raise(ldr, "CYCLIC_IMPORT_ERROR")
           ELSE IF Len(frames) >= MaxDepth
             THEN Raise(ldr, "RecursionError")
           ELSE /\ frames' = Append([frames EXCEPT ![Len(frames)] =
                                        [f EXCEPT !.wait = "import"]],
                                    Frame(modpath, version, f.caching, TRUE,
                                          f.h, FALSE, EmptyText))
                /\ ldr' = [ldr EXCEPT !.loads = @ \cup {verspath(modpath, version)}]
    /\ UNCHANGED <<fs, released, cache, clock, hists>>
    /\ UNCHANGED <<gdb, ivars, bvars, rb, mvars, tvars>>

\* ---------------------------------------------- the contents of a module
\* What a module text declares besides its imports: the body of its
\* deduction, a sequence of members. A member is a node, a sub-deduction
\* or an assignment; nodes and sub-deductions have bodies of their own.
MemberNames == {"A", "B"}
Assignment(lhs) == [kind |-> "PfscAssignment", name |-> lhs, contents |-> <<>>]
Member(kind, name, contents) ==
    [kind |-> kind, name |-> name, contents |-> contents]
\* The body of the deduction of a text; texts that declare none have none.
BodyOf(text) == IF "body" \in DOMAIN text THEN text.body ELSE <<>>

\* ModuleLoader.ban_duplicates: the names encountered with next_name
\* added, or the exception.
Duplicate == "DUPLICATE_DEFINITION_IN_PFSC_MODULE"
ban_duplicates(names_encountered, next_name) ==
    IF next_name \in names_encountered
      THEN [error |-> Duplicate, names |-> names_encountered]
      ELSE [error |-> "none", names |-> names_encountered \cup {next_name}]

\* set_contents with a set of names for each kind of item.
RECURSIVE set_contents_by_kind(_, _)
set_contents_by_kind(contents, names) ==
    IF contents = <<>> THEN "none"
    ELSE LET item == Head(contents)
             banned == ban_duplicates(names, <<item.kind, item.name>>)
         IN  IF banned.error # "none" THEN banned.error
             ELSE set_contents_by_kind(Tail(contents), banned.names)

\* ModuleLoader.set_contents(owner, contents, names): the exception it
\* raises, "none" if the contents are added to the owner.
RECURSIVE set_contents(_, _)
set_contents(contents, names) ==
    IF contents = <<>> THEN "none"
    ELSE LET item == Head(contents)
             banned == ban_duplicates(names, item.name)
         IN  IF banned.error # "none" THEN banned.error
             ELSE set_contents(Tail(contents), banned.names)

\* loader.transform(tree): Lark transforms the children of a tree, first
\* to last, before the tree itself, so the handler of a member (basicnode,
\* subdeduc, ...) has set its contents before its owner sets its own.
RECURSIVE transform(_)
transform(contents) ==
    LET RECURSIVE children(_)
        children(items) ==
            IF items = <<>> THEN "none"
            ELSE LET first == transform(Head(items).contents)
                 IN  IF first # "none" THEN first ELSE children(Tail(items))
        below == children(contents)
    IN  IF below # "none" THEN below ELSE set_contents(contents, {})

\* load_module after the imports of build_module_from_text: the rest of the
\* text is transformed; then the module leaves the history, enters the
\* cache if its text has a read time, and is returned.
Finish ==
    /\ frames # <<>>
    /\ Top.pc = "build" /\ Top.wait = "none" /\ Top.todo = <<>>
    /\ LET f == Top
           module == [Module(f.modpath, f.version, f.text, f.read_time)
                        EXCEPT !.imported = f.imported]
           error == transform(BodyOf(f.text))
       IN  IF error # "none"
             THEN Raise(ldr, error) /\ UNCHANGED <<hists, cache>>
             ELSE /\ hists' = [hists EXCEPT ![f.h] = SubSeq(@, 1, Len(@) - 1)]
                  /\ cache' = IF f.read_time # NoProp
                         THEN [cache EXCEPT ![verspath(f.modpath, f.version)] =
                                  CachedModule(f.read_time, module)]
                         ELSE cache
                  /\ Return(ldr, module)
    /\ UNCHANGED <<fs, released, clock>>
    /\ UNCHANGED <<gdb, ivars, bvars, rb, mvars, tvars>>

LoaderSteps == Enter \/ DependencyInfo \/ Import \/ Finish

\* Time passes.
Tick ==
    /\ frames = <<>>
    /\ clock < MaxClock
    /\ clock' = clock + 1
    /\ UNCHANGED <<fs, released, cache, frames, hists, ldr>>
    /\ UNCHANGED <<gdb, ivars, bvars, rb, mvars, tvars>>

\* The file of a module is written: its modification time is the time, cut
\* down to a whole second or not.
WriteFile(modpath, text) ==
    /\ frames = <<>>
    /\ \E mtime \in {clock, (clock \div TicksPerSec) * TicksPerSec} :
          fs' = [fs EXCEPT ![modpath] = File(text, mtime)]
    /\ fs' # fs
    /\ UNCHANGED <<released, cache, frames, hists, clock, ldr>>
    /\ UNCHANGED <<gdb, ivars, bvars, rb, mvars, tvars>>

RemoveFile(modpath) ==
    /\ frames = <<>>
    /\ fs[modpath].exists
    /\ fs' = [fs EXCEPT ![modpath] = NoFile]
    /\ UNCHANGED <<released, cache, frames, hists, clock, ldr>>
    /\ UNCHANGED <<gdb, ivars, bvars, rb, mvars, tvars>>


\* The loader and its cache: a module a.b.m without imports, in the working
\* tree and in release 1 of the repo; it is loaded under every policy, with
\* or without a text given, while time passes and the file is written or
\* removed.
InitCache ==
    /\ InitGraphIdle
    /\ use_transactions = TRUE
    /\ LET files == [m \in Modpaths |->
                       IF m = "a.b.m" THEN File(EmptyText, 0) ELSE NoFile]
       IN  /\ fs = files
           /\ released = [r \in Repos |->
                            IF r = "a.b" THEN [indexed |-> TRUE, files |-> files]
                            ELSE NoRelease]
    /\ cache = EmptyCache
    /\ frames = <<>>
    /\ hists = <<>>
    /\ clock = 0
    /\ ldr = NoLoad
    /\ rb = NoRelBuild
    /\ InitManifestIdle
    /\ InitOthersIdle
NextCache ==
    \/ \E version \in LoadVersions, caching \in CachePolicies, given \in BOOLEAN :
          LoadModule("a.b.m", version, caching, given, EmptyText, FALSE)
    \/ Enter
    \/ Finish
    \/ Tick
    \/ WriteFile("a.b.m", EmptyText)
    \/ RemoveFile("a.b.m")
SpecCache == InitCache /\ [][NextCache]_vars

\* The loader and imports: the root module a.b and the modules a.b.m and
\* a.b.n of its repo, each importing from one of the others, from itself or
\* from nothing; any of them is loaded, again and again, under every policy.
ImportTexts(modpath) ==
    CASE modpath = "a.b"   -> {EmptyText, Text(<<"a.b.m">>, NoProp)}
      [] modpath = "a.b.m" -> {EmptyText, Text(<<"a.b">>, NoProp),
                               Text(<<"a.b.n">>, NoProp), Text(<<"a.b.m">>, NoProp)}
      [] modpath = "a.b.n" -> {EmptyText, Text(<<"a.b.m">>, NoProp)}
      [] OTHER -> {}
ImportFiles(modpath) ==
    {File(text, 0) : text \in ImportTexts(modpath)}
       \cup (IF modpath = "a.b.m" THEN {} ELSE {NoFile})
InitImport ==
    /\ InitGraphIdle
    /\ use_transactions = TRUE
    /\ fs \in [Modpaths -> [exists : BOOLEAN, text : {EmptyText} \cup UNION {ImportTexts(m) : m \in Modpaths}, mtime : {0}]]
    /\ \A m \in Modpaths : fs[m] \in ImportFiles(m)
    /\ released = [r \in Repos |-> NoRelease]
    /\ cache = EmptyCache
    /\ frames = <<>>
    /\ hists = <<>>
    /\ clock = 0
    /\ ldr = NoLoad
    /\ rb = NoRelBuild
    /\ InitManifestIdle
    /\ InitOthersIdle
NextImport ==
    \/ \E modpath \in {"a.b", "a.b.m", "a.b.n"}, caching \in CachePolicies,
          graceful \in BOOLEAN :
             LoadModule(modpath, WIP_TAG, caching, FALSE, EmptyText, graceful)
    \/ LoaderSteps
SpecImport == InitImport /\ [][NextImport]_vars

\* ------------------------------------------------ the Builder and the loader
\* Builder.build as far as it loads modules: check_root_declarations and
\* the walk over the modules of the repo, every one loaded at WIP from the
\* working tree and then made to represent the version being built.
BuiltRepo == "a.b"
is_release_build(version) == version # WIP_TAG
is_major_zero(version) == version = 0

\* Builder.check_root_declarations: the error it raises, "none" if none.
\* `module` is the root module as load_module returned it.
check_root_declarations(is_release, is_major_inc, major_zero, has_contents, module) ==
    IF ~has_contents
      THEN IF is_release /\ is_major_inc THEN "MISSING_REPO_CHANGE_LOG"
           ELSE "none"
    ELSE IF is_release /\ ~major_zero /\ is_major_inc /\ ~module.text.change_log
      THEN "MISSING_REPO_CHANGE_LOG"
    ELSE IF is_release /\ module.text.deps = WIP_TAG
      THEN "NO_WIP_IMPORTS_IN_NUMBERED_RELEASES"
    ELSE "none"

\* Builder.walk: the modules of the repo in the working tree.
WalkJobs ==
    LET SelectSeq2(sq) == SelectSeq(sq, LAMBDA m : fs[m].exists)
    IN  SelectSeq2(<<"a.b", "a.b.m", "a.b.n">>)

BuilderAtRest == rb.phase \in {"idle", "done", "failed"}

\* Builder(repopath, version, recursive=True, caching).build(), up to the
\* load of the root module in check_root_declarations.
StartBuild(version, caching) ==
    /\ BuilderAtRest
    /\ frames = <<>>
    /\ LET is_major_inc == is_major_version_increment(gdb, BuiltRepo, version)
           started == [NoRelBuild EXCEPT !.version = version,
                          !.caching = caching, !.root = fs[BuiltRepo],
                          !.is_major_inc = is_major_inc]
           error == check_root_declarations(is_release_build(version),
                        is_major_inc, is_major_zero(version), FALSE, NoModule)
       IN  IF fs[BuiltRepo].exists
             THEN /\ Call(BuiltRepo, WIP_TAG, caching, FALSE, EmptyText, FALSE)
                  /\ rb' = [started EXCEPT !.phase = "root"]
           ELSE IF error # "none"
             THEN /\ rb' = [started EXCEPT !.phase = "failed", !.error = error]
                  /\ UNCHANGED lvars
           ELSE /\ rb' = [started EXCEPT !.phase = "walk", !.jobs = WalkJobs]
                /\ UNCHANGED lvars
    /\ UNCHANGED <<gdb, ivars, bvars, mvars, tvars>>

\* check_root_declarations once load_module has returned or raised.
RootLoaded ==
    /\ rb.phase = "root"
    /\ frames = <<>>
    /\ LET loaded == [rb EXCEPT !.loads = @ \cup ldr.loads]
           error == check_root_declarations(is_release_build(rb.version),
                        rb.is_major_inc, is_major_zero(rb.version), TRUE,
                        ldr.ret.module)
       IN  IF ldr.ret.kind = "raised"
             THEN rb' = [loaded EXCEPT !.phase = "failed", !.error = ldr.ret.code]
           ELSE IF error # "none"
             THEN rb' = [loaded EXCEPT !.phase = "failed", !.error = error]
           ELSE rb' = [loaded EXCEPT !.phase = "walk", !.jobs = WalkJobs]
    /\ UNCHANGED lvars
    /\ UNCHANGED <<gdb, ivars, bvars, mvars, tvars>>

\* handle_pfsc_module, up to its call of load_module.
HandleModule ==
    /\ rb.phase = "walk"
    /\ frames = <<>>
    /\ Call(Head(rb.jobs), WIP_TAG, rb.caching, FALSE, EmptyText, FALSE)
    /\ rb' = [rb EXCEPT !.phase = "module"]
    /\ UNCHANGED <<gdb, ivars, bvars, mvars, tvars>>

\* handle_pfsc_module once load_module has returned or raised: the module
\* object, which is the one in the cache, is made to represent the version
\* being built. After the last module the build is done.
ModuleLoaded ==
    /\ rb.phase = "module"
    /\ frames = <<>>
    /\ LET loaded == [rb EXCEPT !.loads = @ \cup ldr.loads]
           vp == verspath(Head(rb.jobs), WIP_TAG)
           module == [ldr.ret.module EXCEPT !.represented_version = rb.version]
       IN  IF ldr.ret.kind = "raised"
             THEN /\ rb' = [loaded EXCEPT !.phase = "failed",
                                          !.error = ldr.ret.code]
                  /\ UNCHANGED cache
             ELSE /\ rb' = [loaded EXCEPT !.modules = @ \cup {module},
                              !.jobs = Tail(@),
                              !.phase = IF Tail(rb.jobs) = <<>> THEN "done"
                                        ELSE "walk"]
                  /\ cache' = [cache EXCEPT ![vp].module = module]
    /\ UNCHANGED <<fs, released, frames, hists, clock, ldr>>
    /\ UNCHANGED <<gdb, ivars, bvars, mvars, tvars>>

BuildSteps == RootLoaded \/ HandleModule \/ ModuleLoaded

\* The root modules there may be: for the repo c.d they declare no
\* version, release 1 or WIP; they have a change log or none.
RootTexts ==
    {RootText(<<>>, deps, change_log) :
        deps \in {NoProp, ReleaseV, WIP_TAG}, change_log \in BOOLEAN}
RootFiles(texts) == {NoFile} \cup {File(text, 0) : text \in texts}

\* The working tree of a.b with the given root module and a module a.b.m
\* that imports from the repo c.d, which has a working tree and a release 1.
InitTrees(root) ==
    /\ fs = [m \in Modpaths |->
                CASE m = "a.b" -> root
                  [] m = "a.b.m" -> File(Text(<<"c.d">>, NoProp), 0)
                  [] m = "c.d" -> File(EmptyText, 0)
                  [] OTHER -> NoFile]
    /\ released = [r \in Repos |->
          IF r = "c.d"
            THEN [indexed |-> TRUE,
                  files |-> [m \in Modpaths |->
                     IF m = "c.d" THEN File(EmptyText, 0) ELSE NoFile]]
            ELSE NoRelease]
    /\ cache = EmptyCache
    /\ frames = <<>>
    /\ hists = <<>>
    /\ clock = 0
    /\ ldr = NoLoad
    /\ rb = NoRelBuild
    /\ InitManifestIdle
    /\ InitOthersIdle
InitIndexIdle ==
    /\ InitIdle
    /\ rebuilds = 0
    /\ content = [r \in Repos |-> [m \in Majors |-> NotBuilt]]
    /\ partial = FALSE
    /\ last = [op |-> "init", wip |-> FALSE, ok |-> TRUE, dirty |-> FALSE]
    /\ use_transactions = TRUE

\* Builds of a.b at WIP and at release 1, which the index has already,
\* under every cache policy; the root module has a change log; between
\* builds the root module is rewritten and a.b.m is loaded. The files are
\* older than the first load or build by up to MaxClock ticks.
ReleaseRootTexts == {text \in RootTexts : text.change_log}
ReleaseVersions == {ReleaseV, WIP_TAG}
InitRelease ==
    /\ InitIndexIdle
    /\ gdb = ReleasedGraph
    /\ \E root \in RootFiles(ReleaseRootTexts) : InitTrees(root)
NextRelease ==
    \/ \E version \in ReleaseVersions, caching \in CachePolicies :
          StartBuild(version, caching)
    \/ BuildSteps
    \/ LoaderSteps
    \/ BuilderAtRest /\ LoadModule("a.b.m", WIP_TAG, TIME, FALSE, EmptyText, TRUE)
    \/ BuilderAtRest /\ \E text \in ReleaseRootTexts : WriteFile(BuiltRepo, text)
    \/ ldr = NoLoad /\ rb = NoRelBuild /\ Tick
SpecRelease == InitRelease /\ [][NextRelease]_vars

\* check_root_declarations alone: one build, of any version and on an index
\* without a release of a.b or with release 1, of a working tree with any
\* root module or none.
InitRootDecl ==
    /\ InitIndexIdle
    /\ gdb \in {EmptyGraph, ReleasedGraph}
    /\ \E root \in RootFiles(RootTexts) : InitTrees(root)
NextRootDecl ==
    \/ \E version \in Versions, caching \in CachePolicies :
          rb.phase = "idle" /\ StartBuild(version, caching)
    \/ Enter
    \/ Finish
    \/ RootLoaded
SpecRootDecl == InitRootDecl /\ [][NextRootDecl]_vars

\* ----------------------------------------------------------------- Manifest
\* Libpaths are strings: sequences of characters, segments joined by dots.
Lp_a == <<"a">>
Lp_a_b == <<"a", ".", "b">>
Lp_a_b1 == <<"a", ".", "b", "1">>
Lp_a_b_c == <<"a", ".", "b", ".", "c">>
Lp_a_b_T == <<"a", ".", "b", ".", "T">>
\* The root module of another repo.
Lp_z == <<"z">>
\* The modules a repo `a` may have, sorted by name, and the one deduction.
AllModules == <<Lp_a, Lp_a_b, Lp_a_b_c, Lp_a_b1>>
ModuleIds == {AllModules[i] : i \in 1..Len(AllModules)} \cup {Lp_z}
NodeIds == ModuleIds \cup {Lp_a_b_T}
Contents(modpath) == IF modpath = Lp_a_b THEN <<Lp_a_b_T>> ELSE <<>>

\* The libpaths that `path += '.' + segment` runs through, from the repo
\* to the libpath itself.
path_parts(libpath) ==
    LET n == Len(libpath)
        ends == SelectSeq([i \in 1..n |-> i],
                          LAMBDA i : i = n \/ libpath[i + 1] = ".")
    IN  [j \in 1..Len(ends) |-> SubSeq(libpath, 1, ends[j])]
\* The directories and modules that os.walk finds in the directory of a
\* module, given the modules there are.
Submodules(modpath, tree) ==
    SelectSeq(AllModules, LAMBDA m :
        /\ m \in tree
        /\ Len(path_parts(m)) = Len(path_parts(modpath)) + 1
        /\ path_parts(m)[Len(path_parts(modpath))] = modpath)

\* class ManifestTreeNode. A node is an object: the heap holds the nodes
\* there are, and a node is known by its place in the heap. `name` stands
\* for the data of the node and is the number of the build that made it;
\* `manifest` is the number of the Manifest the node belongs to, 0 for the
\* receiving one.
NoRef == 0
ManifestTreeNode(id, type, name) ==
    [id |-> id, type |-> type, name |-> name, parent |-> NoRef,
     children |-> <<>>, manifest |-> NoProp]
NoLookup == [id \in NodeIds |-> NoRef]
BuildInfo(recursive, time) == [recursive |-> recursive, time |-> time]
NoInfo == BuildInfo(FALSE, NoProp)
NoBuildInfo == [id \in ModuleIds |-> NoInfo]

\* Manifest.add_node and ManifestTreeNode.add_child, on a Manifest m with
\* its heap: [heap, root_node, lookup, build_info].
add_node(m, ref, owner) ==
    [m EXCEPT !.heap[ref].manifest = owner, !.lookup[m.heap[ref].id] = ref]
add_child(m, parent, child) ==
    LET appended == [m EXCEPT !.heap[parent].children = Append(@, child)]
        added == add_node(appended, child, m.heap[parent].manifest)
    IN  [added EXCEPT !.heap[child].parent = parent]
\* A new node and its reference.
New(m, node) == [m EXCEPT !.heap = Append(@, node)]
NewRef(m) == Len(m.heap) + 1

\* Manifest(root_node) on a heap
Manifest(heap, node, owner) ==
    add_node([heap |-> Append(heap, node), root_node |-> Len(heap) + 1,
              lookup |-> NoLookup, build_info |-> NoBuildInfo],
             Len(heap) + 1, owner)

\* Builder.__init__: the nodes from the repo down to the module to build.
RECURSIVE PathNodes(_, _, _, _)
PathNodes(m, parent, parts, name) ==
    IF parts = <<>> THEN m
    ELSE LET child == NewRef(m)
         IN  PathNodes(add_child(New(m, ManifestTreeNode(Head(parts), "MODULE", name)),
                                 parent, child),
                       child, Tail(parts), name)

\* Builder.walk: the nodes of the directories and modules below a module,
\* top down, the children of a node sorted by name.
RECURSIVE WalkNodes(_, _, _, _)
WalkNodes(m, todo, tree, name) ==
    IF todo = <<>> THEN m
    ELSE LET parent == Head(todo)
             subs == Submodules(m.heap[parent].id, tree)
             refs == [i \in 1..Len(subs) |-> Len(m.heap) + i]
             RECURSIVE AddAll(_, _)
             AddAll(mm, i) ==
                 IF i > Len(subs) THEN mm
                 ELSE AddAll(add_child(New(mm, ManifestTreeNode(subs[i], "MODULE", name)),
                                       parent, refs[i]), i + 1)
         IN  WalkNodes(AddAll(m, 1), Tail(todo) \o refs, tree, name)

\* handle_pfsc_module for every job: the nodes of the contents of a module
\* become children of the module's node.
RECURSIVE HandleJobs(_, _, _)
HandleJobs(m, jobs, name) ==
    IF jobs = <<>> THEN m
    ELSE LET node == Head(jobs)
             items == Contents(m.heap[node].id)
             RECURSIVE AddItems(_, _)
             AddItems(mm, i) ==
                 IF i > Len(items) THEN mm
                 ELSE AddItems(add_child(New(mm, ManifestTreeNode(items[i], "CHART", name)),
                                         node, NewRef(mm)), i + 1)
         IN  HandleJobs(AddItems(m, 1), Tail(jobs), name)

\* The Manifest of a Builder after build(): the build of module_path,
\* recursive or not, of a working tree with the given modules, is build
\* number `name`, and its Manifest is Manifest number `owner`.
BuiltManifest(heap, module_path, recursive, tree, name, owner) ==
    LET parts == path_parts(module_path)
        repo == Manifest(heap, ManifestTreeNode(Head(parts), "MODULE", name), owner)
        path == PathNodes(repo, repo.root_node, Tail(parts), name)
        root_node == Len(path.heap)
        walked == IF recursive THEN WalkNodes(path, <<root_node>>, tree, name)
                  ELSE path
        jobs == [i \in 1..(Len(walked.heap) - root_node + 1) |-> root_node + i - 1]
        handled == HandleJobs(walked, jobs, name)
    IN  [handled EXCEPT !.build_info =
            [NoBuildInfo EXCEPT ![module_path] = BuildInfo(recursive, name)]]

\* s[i:j] of a string
slice(s, i, j) ==
    LET hi == IF j < Len(s) THEN j ELSE Len(s)
    IN  IF i + 1 > hi THEN <<>> ELSE SubSeq(s, i + 1, hi)

remove_built_key(sb, built_libpath, recursive) ==
    IF recursive THEN {k1 \in ModuleIds : sb[k1] # NoInfo /\ k1 = built_libpath}
    ELSE {}
remove_prefixed_keys(sb, built_libpath, recursive) ==
    LET n == Len(built_libpath)
    IN  IF recursive
          THEN {k1 \in ModuleIds :
                   sb[k1] # NoInfo /\ slice(k1, 0, n) = built_libpath}
          ELSE {}

\* Manifest.merge: "If recursive, then remove any keys from sb of which k is
\* a segmentwise prefix."
remove_keys(sb, built_libpath, recursive) ==
    LET n == Len(built_libpath)
    IN  IF recursive
          THEN {k1 \in ModuleIds :
                   /\ sb[k1] # NoInfo
                   /\ slice(k1, 0, n) = built_libpath
                   /\ slice(k1, n, n + 1) \in {<<>>, <<".">>}}
          ELSE {}

is_single_build(m) ==
    Cardinality({id \in ModuleIds : m.build_info[id] # NoInfo}) = 1

\* Manifest.merge: "finding the first ancestor of B (including B itself) for
\* which we have a node A of the same id".
RECURSIVE FirstCommon(_, _, _, _)
FirstCommon(heap, lookup, B, C) ==
    IF B = NoRef THEN [A |-> NoRef, B |-> NoRef, C |-> C]
    ELSE IF lookup[heap[B].id] # NoRef
      THEN [A |-> lookup[heap[B].id], B |-> B, C |-> C]
    ELSE FirstCommon(heap, lookup, heap[B].parent, B)

\* ManifestTreeNode.replace
replace(heap, node, old, new) ==
    LET hit == {i \in 1..Len(heap[node].children) :
                   heap[heap[node].children[i]].id = heap[old].id}
    IN  [heap EXCEPT
           ![node].children = [i \in 1..Len(@) |-> IF i \in hit THEN new ELSE @[i]],
           ![new].parent = IF hit = {} THEN @ ELSE node]

\* ManifestTreeNode.add_child during a merge: the child enters the lookup
\* of the Manifest its new parent belongs to, which is the receiving one
\* (0), the other one, or one merged earlier, which nothing reads any more.
\* w is [heap, lookup, other_lookup, other].
merge_add_child(w, parent, child) ==
    LET owner == w.heap[parent].manifest
        id == w.heap[child].id
    IN  [w EXCEPT !.heap[parent].children = Append(@, child),
                  !.heap[child].manifest = owner,
                  !.heap[child].parent = parent,
                  !.lookup[id] = IF owner = 0 THEN child ELSE @,
                  !.other_lookup[id] = IF owner = w.other THEN child ELSE @]
RECURSIVE merge_add_children(_, _, _)
merge_add_children(w, parent, children) ==
    IF children = <<>> THEN w
    ELSE merge_add_children(merge_add_child(w, parent, Head(children)),
                            parent, Tail(children))

\* ManifestTreeNode.get_submodules
get_submodules(heap, node) ==
    SelectSeq(heap[node].children, LAMBDA c : heap[c].type = "MODULE")

\* Manifest.merge(other): the receiving Manifest afterwards, the exception
\* raised if any, and the nodes A, B, C it found. The nodes of `other`, the
\* Manifest number `number`, are on other.heap above those of self.heap.
merge(self, other, number) ==
    LET sb == self.build_info
        built_libpath == CHOOSE id \in ModuleIds : other.build_info[id] # NoInfo
        build_info == other.build_info[built_libpath]
        recursive == build_info.recursive
        removed == remove_keys(sb, built_libpath, recursive)
        merged_info == [id \in ModuleIds |->
                           IF id = built_libpath THEN build_info
                           ELSE IF id \in removed THEN NoInfo
                           ELSE sb[id]]
        found == FirstCommon(other.heap, self.lookup,
                             other.lookup[built_libpath], NoRef)
        A == found.A
        B == found.B
        C == found.C
        w == [heap |-> other.heap, lookup |-> self.lookup,
              other_lookup |-> other.lookup, other |-> number]
        same == other.heap[A].id = built_libpath
        is_root == A = self.root_node
        orphan == same /\ ~is_root /\ other.heap[A].parent = NoRef
        replaced == IF is_root THEN w
                    ELSE [w EXCEPT !.heap = replace(@, other.heap[A].parent, A, B)]
        kept == IF recursive THEN replaced
                ELSE merge_add_children(replaced, B, get_submodules(replaced.heap, A))
        trees == IF same THEN kept ELSE merge_add_child(w, A, C)
        lookup == [id \in NodeIds |->
                      IF trees.other_lookup[id] # NoRef THEN trees.other_lookup[id]
                      ELSE trees.lookup[id]]
        nodes == [A |-> A, B |-> B, C |-> C]
    IN  IF ~is_single_build(other)
          THEN [m |-> [self EXCEPT !.heap = other.heap],
                error |-> "MANIFEST_BAD_FORM",
                nodes |-> [A |-> NoRef, B |-> NoRef, C |-> NoRef]]
        ELSE IF A = NoRef \/ B = NoRef
          THEN [m |-> [self EXCEPT !.heap = other.heap, !.build_info = merged_info],
                error |-> "MANIFEST_BAD_FORM", nodes |-> nodes]
        ELSE IF orphan
          THEN [m |-> [self EXCEPT !.heap = other.heap, !.build_info = merged_info],
                error |-> "AttributeError", nodes |-> nodes]
        ELSE [m |-> [self EXCEPT !.heap = trees.heap, !.lookup = lookup,
                        !.build_info = merged_info,
                        !.root_node = IF same /\ is_root THEN B ELSE @],
              error |-> "none", nodes |-> nodes]

\* ManifestTreeNode.build_dict: the keys of the dictionary are "id", those
\* of the node's data, which has "libpath", and "children" if there are any.
RECURSIVE node_build_dict(_, _)
node_build_dict(heap, node) ==
    LET n == heap[node]
        d == [id |-> n.id, type |-> n.type, name |-> n.name, libpath |-> n.id]
        children == [i \in 1..Len(n.children) |->
                        node_build_dict(heap, n.children[i])]
    IN  IF children # <<>> THEN d @@ [children |-> children] ELSE d

\* Manifest.build_dict: "build" only if there is build info.
build_dict(m) ==
    LET built == {id \in ModuleIds : m.build_info[id] # NoInfo}
        t == node_build_dict(m.heap, m.root_node)
    IN  IF built # {}
          THEN [build |-> [id \in built |-> m.build_info[id]], tree_model |-> t]
          ELSE [tree_model |-> t]

\* build_manifest_tree_from_dict, on a heap of its own
RECURSIVE build_manifest_tree_from_dict(_, _, _)
build_manifest_tree_from_dict(m, d, parent) ==
    LET children == IF "children" \in DOMAIN d THEN d.children ELSE <<>>
        node == ManifestTreeNode(d.id, d.type, d.name)
        ref == IF parent = NoRef THEN 1 ELSE NewRef(m)
        r == IF parent = NoRef THEN Manifest(<<>>, node, 0)
             ELSE add_child(New(m, node), parent, ref)
        RECURSIVE Each(_, _)
        Each(mm, i) ==
            IF i > Len(children) THEN mm
            ELSE Each(build_manifest_tree_from_dict(mm, children[i], ref), i + 1)
    IN  Each(r, 1)

\* build_manifest_from_dict: the Manifest, or the exception raised.
build_manifest_from_dict(d) ==
    IF "build" \notin DOMAIN d
      THEN [error |-> "KeyError", manifest |-> NoManifest]
      ELSE LET manifest == build_manifest_tree_from_dict(NoManifest, d.tree_model, NoRef)
               info == [id \in ModuleIds |->
                           IF id \in DOMAIN d.build THEN d.build[id] ELSE NoInfo]
           IN  [error |-> "none",
                manifest |-> [manifest EXCEPT !.build_info = info]]

\* ManifestTreeNode.build_relational_model: the rows of the tree below a
\* node, the node's own row first. `parent` is the id of self.parent, None
\* if the node has none.
NoneId == <<"None">>
Row(heap, node, siblingOrder, terminal) ==
    [id |-> heap[node].id, sibling |-> siblingOrder,
     parent |-> IF heap[node].parent = NoRef THEN NoneId
                ELSE heap[heap[node].parent].id,
     type |-> heap[node].type,
     has_terminal |-> heap[node].type = "MODULE", terminal |-> terminal]
RECURSIVE RowsOfChildren(_, _, _, _)
\* The mutant of C27: a module is terminal whatever its children are.
build_relational_model_all_terminal(heap, node, recursive, siblingOrder) ==
    <<Row(heap, node, siblingOrder, heap[node].type = "MODULE")>>
       \o RowsOfChildren(heap, node, recursive, 1)
RECURSIVE build_relational_model(_, _, _, _)
build_relational_model(heap, node, recursive, siblingOrder) ==
    LET am_module == heap[node].type = "MODULE"
        children == heap[node].children
        terminal == am_module
                       /\ \A i \in 1..Len(children) : heap[children[i]].type # "MODULE"
    IN  <<Row(heap, node, siblingOrder, terminal)>>
           \o RowsOfChildren(heap, node, recursive, 1)
\* The loop over the children, from the i-th one on; enumerate counts
\* from 0.
RowsOfChildren(heap, node, recursive, i) ==
    LET children == heap[node].children
    IN  IF i > Len(children) THEN <<>>
        ELSE (IF heap[children[i]].type = "MODULE" /\ ~recursive THEN <<>>
              ELSE build_relational_model(heap, children[i], recursive, i - 1))
                \o RowsOfChildren(heap, node, recursive, i + 1)

\* The tree below a node: ids, data and children in order.
RECURSIVE TreeOf(_, _)
TreeOf(heap, node) ==
    [id |-> heap[node].id, type |-> heap[node].type, name |-> heap[node].name,
     children |-> [i \in 1..Len(heap[node].children) |->
                      TreeOf(heap, heap[node].children[i])]]

\* The ids of the nodes in a dictionary of build_dict.
RECURSIVE DictIds(_)
DictIds(d) ==
    {d.id} \cup (IF "children" \in DOMAIN d
                   THEN UNION {DictIds(d.children[i]) : i \in 1..Len(d.children)}
                   ELSE {})

\* A Manifest receives up to MaxMerges merges, each of the Manifest of a new
\* build of some module of the repo or of the root module of another repo,
\* recursive or not, of a working tree with or without the module a.b.c,
\* or of a Manifest without build info; it starts as the Manifest of a build,
\* with its build info or, like a Manifest just made, without any. At any
\* time it is written as a dictionary and built from it again.
\* `merges` counts the merges, and `only_new` tells that every one of them
\* was of a module of the repo that the tree had no node of.
MaxMerges == 2
WorkingTrees == {ModuleIds, ModuleIds \ {Lp_a_b_c}}
FirstBuilds ==
    {<<Lp_a, TRUE>>, <<Lp_a, FALSE>>, <<Lp_a_b, TRUE>>, <<Lp_a_b, FALSE>>,
     <<Lp_a_b_c, FALSE>>, <<Lp_a_b1, FALSE>>}
InitManifest ==
    /\ InitIndexIdle
    /\ gdb = EmptyGraph
    /\ InitLoaderIdle
    /\ rb = NoRelBuild
    /\ InitOthersIdle
    /\ \E b \in FirstBuilds, with_info \in BOOLEAN :
          LET built == BuiltManifest(<<>>, b[1], b[2], ModuleIds, 0, 0)
          IN  mf = [merges |-> 0, only_new |-> TRUE] @@
                   (IF with_info THEN built
                    ELSE [built EXCEPT !.build_info = NoBuildInfo])
    /\ mlast = NoMerge

Merge(module_path, recursive, tree) ==
    /\ mf.merges < MaxMerges
    /\ module_path \in tree
    /\ LET number == mf.merges + 1
           other == BuiltManifest(mf.heap, module_path, recursive, tree,
                                  number, number)
           result == merge(mf, other, number)
       IN  /\ mf' = [result.m EXCEPT !.merges = number,
                        !.only_new = @ /\ Head(path_parts(module_path)) = Lp_a
                                       /\ module_path \notin
                                            DictIds(build_dict(mf).tree_model)]
           /\ mlast' = [op |-> "merge", built_libpath |-> module_path,
                        recursive |-> recursive, pre |-> mf,
                        other |-> other, nodes |-> result.nodes,
                        error |-> result.error]
    /\ UNCHANGED <<gdb, ivars, bvars, lvars, rb, tvars>>

\* A merge of a Manifest that is not of a single build: one that has no
\* build info yet.
MergeUnbuilt(module_path, recursive) ==
    /\ mf.merges < MaxMerges
    /\ LET number == mf.merges + 1
           built == BuiltManifest(mf.heap, module_path, recursive, ModuleIds,
                                  number, number)
           other == [built EXCEPT !.build_info = NoBuildInfo]
           result == merge(mf, other, number)
       IN  /\ mf' = [result.m EXCEPT !.merges = number]
           /\ mlast' = [op |-> "merge_unbuilt", built_libpath |-> module_path,
                        recursive |-> recursive, pre |-> mf,
                        other |-> other, nodes |-> result.nodes,
                        error |-> result.error]
    /\ UNCHANGED <<gdb, ivars, bvars, lvars, rb, tvars>>

RoundTrip ==
    /\ mlast' = [op |-> "round_trip", pre |-> mf,
                 result |-> build_manifest_from_dict(build_dict(mf))]
    /\ UNCHANGED <<gdb, ivars, bvars, lvars, rb, mf, tvars>>

\* RepoLoader.load_model: the relational model of the Manifest's tree; and
\* the same without the submodules, as after a build that is not recursive.
LoadModel(recursive) ==
    /\ mlast' = [op |-> "load_model", pre |-> mf, recursive |-> recursive,
                 model |-> build_relational_model(mf.heap, mf.root_node,
                                                  recursive, 0)]
    /\ UNCHANGED <<gdb, ivars, bvars, lvars, rb, mf, tvars>>

NextManifest ==
    \/ \E module_path \in ModuleIds, recursive \in BOOLEAN, tree \in WorkingTrees :
          Merge(module_path, recursive, tree)
    \/ \E module_path \in {Lp_a_b1} : MergeUnbuilt(module_path, FALSE)
    \/ RoundTrip
    \/ \E recursive \in BOOLEAN : LoadModel(recursive)
SpecManifest == InitManifest /\ [][NextManifest]_vars

\* ------------------------------------------- the deductions of a build
\* A repo of two modules in one directory. A module defines deductions; a
\* deduction names its target deduction, if any, by libpath: one defined
\* before it in its module, or one of the other module, imported.
MaxDeducs == 3
DeducModules == {"a.b.p", "a.b.t"}
DeducNames == {"Pf", "Thm", "Thm9", "Thm10"}
NoTarget == <<>>
Deduction(name, target) == [name |-> name, target |-> target]
DeducLibpath(modpath, name) == <<modpath, name>>

\* util.NumberedName: the sort key of a name, its stem and then its
\* numerical suffix, so that Thm9 comes before Thm10.
NumberedName(name) ==
    CASE name = "Pf" -> <<1, 0>>
      [] name = "Thm" -> <<2, 0>>
      [] name = "Thm9" -> <<2, 9>>
      [] name = "Thm10" -> <<2, 10>>
KeyLess(a, b) == a[1] < b[1] \/ (a[1] = b[1] /\ a[2] < b[2])

\* util.topological_sort(graph, reversed=True, secondary_key): every name
\* after its out-neighbours, and by the key among the names that may come
\* next.
RECURSIVE topological_sort(_, _)
topological_sort(graph, names) ==
    IF names = {} THEN <<>>
    ELSE LET free == {n \in names : graph[n] \cap names = {}}
             first == CHOOSE n \in free :
                         \A o \in free \ {n} :
                             KeyLess(NumberedName(n), NumberedName(o))
         IN  <<first>> \o topological_sort(graph, names \ {first})

\* PfscModule.listNativeDeducsByName(toposort=True, numberednames=True) of
\* the module at slp with the deductions `items`, in definition order.
listNativeDeducsByName(slp, items) ==
    LET names == {items[i].name : i \in 1..Len(items)}
        E(E_name) == CHOOSE i \in 1..Len(items) : items[i].name = E_name
        D(E_name) == items[E(E_name)].target
        graph == [E_name \in names |->
                     IF D(E_name) # NoTarget /\ D(E_name)[1] = slp
                       THEN {D(E_name)[2]} ELSE {}]
    IN  topological_sort(graph, names)

\* The deductions a module may define, at most n of them, given those of
\* the module it imports from: distinct names, a target defined before.
RECURSIVE ModuleItems(_, _, _)
ModuleItems(modpath, n, imported) ==
    IF n <= 0 THEN {<<>>}
    ELSE LET shorter == ModuleItems(modpath, n - 1, imported)
             Targets(items) ==
                 {NoTarget} \cup imported
                    \cup {DeducLibpath(modpath, items[i].name) : i \in 1..Len(items)}
             Names(items) == DeducNames \ {items[i].name : i \in 1..Len(items)}
         IN  shorter \cup
             UNION {{Append(items, Deduction(name, target)) :
                        name \in Names(items), target \in Targets(items)} :
                    items \in {i \in shorter : Len(i) = n - 1}}

DefinedIn(modpath, items) ==
    {DeducLibpath(modpath, items[i].name) : i \in 1..Len(items)}

\* The repos: one module imports from the other, never both ways; at most
\* max deductions in all.
ReposOver(lower, lo, max) ==
    LET upper == CHOOSE m \in DeducModules : m # lower
    IN  {[m \in DeducModules |-> IF m = lower THEN lo ELSE hi] :
            hi \in ModuleItems(upper, max - Len(lo), DefinedIn(lower, lo))}
DeducRepos(max) ==
    UNION {UNION {ReposOver(lower, lo, max) : lo \in ModuleItems(lower, max, {})} :
           lower \in DeducModules}

Permutations2(S) ==
    {sq \in [1..Cardinality(S) -> S] : \A i, j \in DOMAIN sq : i # j => sq[i] # sq[j]}

InitDeducs ==
    /\ InitIndexIdle
    /\ gdb = EmptyGraph
    /\ InitLoaderIdle
    /\ rb = NoRelBuild
    /\ InitManifestIdle
    /\ \E repo \in DeducRepos(MaxDeducs) :
          dx = [items |-> repo, phase |-> "build", jobs |-> <<>>, added |-> <<>>,
                depth |-> <<>>, all_items |-> <<>>]
    /\ og = NoOrigins
    /\ px = NoParse
    /\ rq = NoRequests

\* Builder.walk: the jobs, one for each module, in the order in which
\* os.walk lists the files of the directory, which is any order.
WalkDeducs ==
    /\ dx # NoDeducs
    /\ dx.phase = "build"
    /\ \E jobs \in Permutations2(DeducModules) :
          dx' = [dx EXCEPT !.phase = "walk", !.jobs = jobs]
    /\ UNCHANGED <<gdb, ivars, bvars, lvars, rb, mvars, og, px, rq>>

\* util.DoublyLinkedListNode, the list as the sequence of its nodes' data:
\* node.extract() takes the node out of the list, parent.set_next(node)
\* puts it right after the parent.
extract(list, node) ==
    SelectSeq(list, LAMBDA x : x # node)
set_next(list, parent, node) ==
    LET at == CHOOSE i \in 1..Len(list) : list[i] = parent
    IN  SubSeq(list, 1, at) \o <<node>> \o SubSeq(list, at + 1, Len(list))
\* getNativeItemsInDefOrder: the loop over nodes.values(), from the i-th
\* item of the module on; an item is named by its name, its libpath being
\* the module's and the name.
RECURSIVE HoistLoop(_, _, _, _)
HoistLoop(slp, items, i, list) ==
    IF i > Len(items) THEN list
    ELSE LET tdlp == items[i].target
             native == tdlp # NoTarget /\ tdlp[1] = slp
                          /\ \E j \in 1..Len(items) : items[j].name = tdlp[2]
         IN  HoistLoop(slp, items, i + 1,
                       IF native
                         THEN set_next(extract(list, items[i].name), tdlp[2],
                                       items[i].name)
                         ELSE list)
NamesInDefOrder(items) == [i \in 1..Len(items) |-> items[i].name]
\* The mutant of C32: nothing is hoisted.
getNativeItemsInDefOrder_unhoisted(slp, items, hoist_expansions) ==
    NamesInDefOrder(items)
\* PfscModule.getNativeItemsInDefOrder: the names of the items in the
\* order of the dictionary it returns.
getNativeItemsInDefOrder(slp, items, hoist_expansions) ==
    IF hoist_expansions THEN HoistLoop(slp, items, 1, NamesInDefOrder(items))
    ELSE NamesInDefOrder(items)

\* dict.get(key, default)
get(lookup, key, default) ==
    IF key \in DOMAIN lookup THEN lookup[key] ELSE default
\* The mutant of C31: an expansion within the module has depth 1.
depth_of_flat(deduc_depth_within_module, tdlp) ==
    IF tdlp \in DOMAIN deduc_depth_within_module THEN 1 ELSE 0
\* handle_pfsc_module: depth = 1 + deduc_depth_within_module.get(tdlp, -1)
depth_of(deduc_depth_within_module, tdlp) ==
    1 + get(deduc_depth_within_module, tdlp, 0 - 1)
\* handle_pfsc_module: the loop over the deductions in topo-order, as far
\* as it fills deduc_depth_within_module, the depth of the CHART nodes.
RECURSIVE DepthLoop(_, _, _, _)
DepthLoop(module_path, items, deducs, deduc_depth_within_module) ==
    IF deducs = <<>> THEN deduc_depth_within_module
    ELSE LET name == Head(deducs)
             dlp  == DeducLibpath(module_path, name)
             tdlp == items[CHOOSE i \in 1..Len(items) : items[i].name = name].target
             depth == depth_of(deduc_depth_within_module, tdlp)
         IN  DepthLoop(module_path, items, Tail(deducs),
                       (dlp :> depth) @@ deduc_depth_within_module)

\* Builder.handle_pfsc_module for the next job: add_deduc for each
\* deduction of the module, in the order of getAllNativeDeductions, and
\* the depth of its CHART node.
HandleDeducs ==
    /\ dx # NoDeducs
    /\ dx.phase = "walk"
    /\ dx.jobs # <<>>
    /\ LET module_path == Head(dx.jobs)
           deducs == listNativeDeducsByName(module_path, dx.items[module_path])
           dlps == [i \in 1..Len(deducs) |-> DeducLibpath(module_path, deducs[i])]
       IN  dx' = [dx EXCEPT !.added = @ \o dlps, !.jobs = Tail(@),
                     !.depth = DepthLoop(module_path, dx.items[module_path],
                                         deducs, <<>>) @@ @,
                     !.all_items = (module_path :> getNativeItemsInDefOrder(
                                       module_path, dx.items[module_path], TRUE)) @@ @,
                     !.phase = IF Tail(dx.jobs) = <<>> THEN "done" ELSE "walk"]
    /\ UNCHANGED <<gdb, ivars, bvars, lvars, rb, mvars, og, px, rq>>

NextDeducs == WalkDeducs \/ HandleDeducs
SpecDeducs == InitDeducs /\ [][NextDeducs]_vars

\* -------------------------------------------------------------- origins
\* GraphReader.get_origins: the origin of the entity at libpath as of the
\* given major: the libpath and major of the node it came from over MOVE
\* edges, its own if it was never moved.
RECURSIVE OriginOfNode(_, _, _)
OriginOfNode(g, n, fuel) ==
    LET preds == {s \in g.nodes : \E e \in g.edges :
                     e.type = "MOVE" /\ e.tail = s.id /\ e.head = n.id}
    IN  IF preds = {} \/ fuel = 0 THEN <<n.libpath, n.major>>
        ELSE OriginOfNode(g, CHOOSE s \in preds : TRUE, fuel - 1)

get_origins(g, libpaths, major) ==
    LET found == {lp \in libpaths :
                     \E n \in g.nodes : n.libpath = lp /\ Covers(n, major)}
    IN  [lp \in found |->
            OriginOfNode(g, CHOOSE n \in g.nodes :
                                n.libpath = lp /\ Covers(n, major),
                         Cardinality(g.nodes))]

\* ModuleIndexInfo.compute_origins: a new entity that a move of the build
\* ends at inherits the origin of what moved; any other new entity has the
\* origin (its libpath, the major of the build).
compute_origins(g, mii) ==
    LET Moved(lp) == {m[1] : m \in {c \in mii.mm_closure : c[2] = lp}}
        old == get_origins(g, {m[1] : m \in mii.mm_closure},
                           mii.current_maj_vers)
    IN  [lp \in mii.V_add |->
            IF Moved(lp) \cap DOMAIN old # {}
              THEN old[CHOOSE src \in Moved(lp) \cap DOMAIN old : TRUE]
              ELSE <<lp, mii.major>>]

\* Builder.inject_origins: OriginInjectionVisitor sets the origin of every
\* item whose libpath has one in lp2origin.
NoOrigin == <<>>
inject_origins(lp2origin, items) ==
    [lp \in items |-> IF lp \in DOMAIN lp2origin THEN lp2origin[lp]
                      ELSE NoOrigin]

\* History: first[lp] is the major of the version that first defined the
\* entity at lp, NoProp if none has; moved are the libpaths that a move
\* has started from or ended at.
NoHistory == [injected |-> NoOrigins, first |-> [lp \in Libpaths |-> NoProp],
              moved |-> {}]

\* Builder.build and update_index of a build of the repo.
OriginBuild(repo, version, defs, moves) ==
    LET mii == MakeMII(gdb, repo, version, defs, {}, moves)
    IN  /\ UpdateIndexOf(repo, version, defs, {}, moves, "none")
        /\ og' = [injected |-> inject_origins(compute_origins(gdb, mii), defs),
                  first |-> [lp \in Libpaths |->
                                IF lp \in defs /\ og.first[lp] = NoProp
                                  THEN version ELSE og.first[lp]],
                  moved |-> og.moved
                     \cup UNION {{m[1], m[2]} : m \in mii.mm_closure}]
        /\ UNCHANGED <<lvars, rb, mvars, dx, px, rq>>

\* delete_full_wip_build: what only the WIP build defined is defined no
\* more.
OriginDeleteWip(repo) ==
    /\ GraphWriterDeleteFullWipBuild(repo)
    /\ og' = [og EXCEPT !.injected = NoOrigins,
                 !.first = [lp \in Libpaths |->
                    IF \E n \in gdb'.nodes : n.libpath = lp THEN @[lp]
                    ELSE NoProp]]
    /\ UNCHANGED <<lvars, rb, mvars, dx, px, rq>>

InitOrigins ==
    /\ InitGraphIdle
    /\ use_transactions = TRUE
    /\ InitLoaderIdle
    /\ rb = NoRelBuild
    /\ InitManifestIdle
    /\ dx = NoDeducs
    /\ og = NoHistory
    /\ px = NoParse
    /\ rq = NoRequests
NextOrigins ==
    \/ \E version \in Versions, defs \in DefChoices("a.b") :
         \E moves \in MoveMappings(gdb, "a.b", version, defs) :
            OriginBuild("a.b", version, defs, moves)
    \/ OriginDeleteWip("a.b")
SpecOrigins == InitOrigins /\ [][NextOrigins]_vars

\* ------------------------------------------------ loading what is parsed
\* The bodies a deduction may have: members nested at most `depth` deep,
\* at most n of them in all.
MaxMembers == 3
MaxNesting == 2
RECURSIVE SizeOf(_)
SizeOf(contents) ==
    IF contents = <<>> THEN 0
    ELSE 1 + SizeOf(Head(contents).contents) + SizeOf(Tail(contents))
RECURSIVE Bodies(_, _)
Bodies(depth, n) ==
    IF n = 0 THEN {<<>>}
    ELSE LET owners ==
                IF depth = 0 THEN {}
                ELSE {Member(kind, name, contents) :
                         kind \in {"Node", "SubDeduc"}, name \in MemberNames,
                         contents \in Bodies(depth - 1, n - 1)}
             members == {Assignment(lhs) : lhs \in MemberNames} \cup owners
         IN  {<<>>} \cup
             UNION {{<<m>> \o rest : rest \in Bodies(depth, n - SizeOf(<<m>>))} :
                    m \in members}
BodyText(body) ==
    [f \in DOMAIN EmptyText \cup {"body"} |->
        IF f = "body" THEN body ELSE EmptyText[f]]
ParsedModule == "a.b.m"

\* A module in the working tree, loaded under every cache policy from its
\* file; a module without members is first loaded from a text that is
\* given, or is rewritten once it is in the cache and loaded again.
InitParse ==
    /\ InitIndexIdle
    /\ gdb = EmptyGraph
    /\ released = [r \in Repos |-> NoRelease]
    /\ cache = EmptyCache
    /\ frames = <<>>
    /\ hists = <<>>
    /\ clock = 0
    /\ ldr = NoLoad
    /\ rb = NoRelBuild
    /\ InitManifestIdle
    /\ InitOthersIdle
    /\ \E body \in Bodies(MaxNesting, MaxMembers) :
          fs = [NoFiles EXCEPT ![ParsedModule] = File(BodyText(body), 0)]
Unwritten == BodyOf(fs[ParsedModule].text) = <<>>
NextParse ==
    \/ \E caching \in CachePolicies :
          LoadModule(ParsedModule, WIP_TAG, caching, FALSE, EmptyText, FALSE)
    \/ /\ ldr = NoLoad /\ Unwritten
       /\ \E caching \in CachePolicies, body \in Bodies(MaxNesting, MaxMembers) :
             LoadModule(ParsedModule, WIP_TAG, caching, TRUE, BodyText(body),
                        FALSE)
    \/ Enter
    \/ Finish
    \/ /\ Unwritten
       /\ cache # EmptyCache
       /\ \E body \in Bodies(MaxNesting, MaxMembers) :
             WriteFile(ParsedModule, BodyText(body))
SpecParse == InitParse /\ [][NextParse]_vars

\* A load that fails gracefully: the module a.b.m, whose source in the
\* working tree and in release 1 may be missing, and whose release may not
\* be indexed; it is loaded at either version under every policy, with
\* fail_gracefully set or not, while the file is written or removed.
SourceChoices == {File(EmptyText, 0), NoFile}
InitGraceful ==
    /\ InitGraphIdle
    /\ use_transactions = TRUE
    /\ \E wip \in SourceChoices, rel \in SourceChoices, indexed \in BOOLEAN :
          /\ fs = [m \in Modpaths |-> IF m = "a.b.m" THEN wip ELSE NoFile]
          /\ released = [r \in Repos |->
                IF r = "a.b"
                  THEN [indexed |-> indexed,
                        files |-> [m \in Modpaths |->
                                     IF m = "a.b.m" THEN rel ELSE NoFile]]
                  ELSE NoRelease]
    /\ cache = EmptyCache
    /\ frames = <<>>
    /\ hists = <<>>
    /\ clock = 0
    /\ ldr = NoLoad
    /\ rb = NoRelBuild
    /\ InitManifestIdle
    /\ InitOthersIdle
NextGraceful ==
    \/ \E version \in LoadVersions, caching \in CachePolicies, graceful \in BOOLEAN :
          LoadModule("a.b.m", version, caching, FALSE, EmptyText, graceful)
    \/ Enter
    \/ Finish
    \/ WriteFile("a.b.m", EmptyText)
    \/ RemoveFile("a.b.m")
SpecGraceful == InitGraceful /\ [][NextGraceful]_vars

\* ------------------------------------------------------------- module texts
\* The text of a module, as far as BLOCK_RE and the line map see it, is a
\* sequence of tokens: "anno" (the keyword and a block name, after a
\* character that is no word character, so that it is no delimiter code),
\* "@@@" (a delimiter with an empty code), "nl" (a newline, the white space
\* with which annotation contents begin) and "=" (any other text, neither
\* a word character nor white space nor an @).
MaxText == 6
TextTokens == {"anno", "@@@", "nl", "="}
TextsUpTo(n) == UNION {[1..len -> TextTokens] : len \in 0..n}

\* chunk.count('\n')
RECURSIVE CountLines(_)
CountLines(chunk) ==
    IF chunk = <<>> THEN 0
    ELSE (IF Head(chunk) = "nl" THEN 1 ELSE 0) + CountLines(Tail(chunk))

\* The first position from `from` on that holds `token`, 0 if there is none.
FirstAt(text, token, from) ==
    IF \E i \in from..Len(text) : text[i] = token
      THEN CHOOSE i \in from..Len(text) :
              /\ text[i] = token
              /\ \A h \in from..(i - 1) : text[h] # token
      ELSE 0

\* BLOCK_RE matched with its preamble starting at i: "anno" and a name, no
\* @ up to the opening delimiter at j, contents that begin with white space,
\* and the closing delimiter at k, the first one after the contents begin.
BlockAt(text, i) ==
    LET j == FirstAt(text, "@@@", i + 1)
        k == IF j = 0 THEN 0 ELSE FirstAt(text, "@@@", j + 2)
    IN  [i |-> i, j |-> j, k |-> k,
         ok |-> /\ text[i] = "anno"
                /\ j # 0 /\ j < Len(text) /\ text[j + 1] = "nl"
                /\ k # 0]

\* BLOCK_RE.split(text): the matches from left to right, none overlapping.
RECURSIVE BlockMatches(_, _)
BlockMatches(text, from) ==
    IF \E i \in from..Len(text) : BlockAt(text, i).ok
      THEN LET i == CHOOSE i \in from..Len(text) :
                       /\ BlockAt(text, i).ok
                       /\ \A h \in from..(i - 1) : ~BlockAt(text, h).ok
               m == BlockAt(text, i)
           IN  <<m>> \o BlockMatches(text, m.k + 1)
      ELSE <<>>

\* The chunks of the split: c0, and for each block its preamble a, its
\* contents ac and the text t that follows it; as ranges of positions.
Range(lo, hi) == [lo |-> lo, hi |-> hi]
Positions(r) == [p \in 1..(r.hi - r.lo + 1) |-> r.lo + p - 1]
ChunkOf(text, r) == [p \in 1..(r.hi - r.lo + 1) |-> text[r.lo + p - 1]]
Chunks(text) ==
    LET ms == BlockMatches(text, 1)
        n  == Len(ms)
        EndOf(q) == IF q > n THEN Len(text) ELSE ms[q].i - 1
    IN  [c0 |-> Range(1, EndOf(1)),
         blocks |-> [q \in 1..n |->
                       [a  |-> Range(ms[q].i, ms[q].j - 1),
                        ac |-> Range(ms[q].j + 1, ms[q].k - 1),
                        t  |-> Range(ms[q].k + 1, EndOf(q + 1))]]]

Reverse(s) == [p \in 1..Len(s) |-> s[Len(s) + 1 - p]]

\* BlockChunker.__init__: the loop over the blocks, keep_lines for c0 and
\* each t, cut_lines for each ac. `kept` is the modified text, as the
\* positions of the original text it is made of.
RECURSIVE ChunkBlocks(_, _, _, _, _, _)
ChunkBlocks(text, blocks, line_no, lines_cut, line_mapping, kept) ==
    IF blocks = <<>>
      THEN [line_mapping |-> Reverse(line_mapping), kept |-> kept]
      ELSE LET b   == Head(blocks)
               cut == lines_cut + CountLines(ChunkOf(text, b.ac))
           IN  ChunkBlocks(text, Tail(blocks),
                           line_no + CountLines(ChunkOf(text, b.t)),
                           cut,
                           Append(line_mapping, <<line_no, cut>>),
                           kept \o Positions(b.a) \o Positions(b.t))
BlockChunker(text) ==
    LET chunks == Chunks(text)
    IN  ChunkBlocks(text, chunks.blocks,
                    1 + CountLines(ChunkOf(text, chunks.c0)), 0, <<>>,
                    Positions(chunks.c0))

\* BlockChunker.map_line_num_to_orig
map_line_num_to_orig(line_mapping, n) ==
    IF \E q \in 1..Len(line_mapping) : n > line_mapping[q][1]
      THEN LET q == CHOOSE q \in 1..Len(line_mapping) :
                       /\ n > line_mapping[q][1]
                       /\ \A h \in 1..(q - 1) : ~(n > line_mapping[h][1])
           IN  n + line_mapping[q][2]
      ELSE n

\* get_modified_text
get_modified_text(text, bc) == [p \in 1..Len(bc.kept) |-> text[bc.kept[p]]]

\* parse_module_text: the chunker is made of the text, and a parsing error
\* at a line of the modified text is reported at the line the map gives.
ParseModuleText ==
    /\ px # NoParse /\ px.phase = "text"
    /\ px' = [px EXCEPT !.phase = "chunked", !.bc = BlockChunker(px.text)]
    /\ UNCHANGED <<gdb, ivars, bvars, lvars, rb, mvars, dx, og, rq>>
ParsingError(line) ==
    /\ px # NoParse /\ px.phase = "chunked"
    /\ line \in 1..(1 + CountLines(get_modified_text(px.text, px.bc)))
    /\ px' = [px EXCEPT !.phase = "error", !.at = line,
                        !.reported = map_line_num_to_orig(px.bc.line_mapping, line)]
    /\ UNCHANGED <<gdb, ivars, bvars, lvars, rb, mvars, dx, og, rq>>

NoChunker == [line_mapping |-> <<>>, kept |-> <<>>]
InitChunker ==
    /\ InitGraphIdle
    /\ use_transactions = TRUE
    /\ InitLoaderIdle /\ rb = NoRelBuild /\ InitManifestIdle
    /\ dx = NoDeducs /\ og = NoOrigins /\ rq = NoRequests
    /\ \E text \in TextsUpTo(MaxText) :
          px = [text |-> text, phase |-> "text", bc |-> NoChunker,
                at |-> 0, reported |-> 0]
NextChunker ==
    \/ ParseModuleText
    \/ \E line \in 1..(MaxText + 1) : ParsingError(line)
SpecChunker == InitChunker /\ [][NextChunker]_vars

\* ---------------------------------------------------------- comment stripper
\* The characters of a module text that the scanner tells apart: "#", the
\* double quote "d", the single quote "s", and the newline, which also
\* stands for every character that is none of the others. Backslashes are
\* not among them.
MaxChars == 8
Chars == {"#", "d", "s", "nl"}
CharsUpTo(n) == UNION {[1..len -> Chars] : len \in 0..n}
DoubleQuote == "d"
SingleQuote == "s"

\* PfscModuleStringAwareScanner: what the scanner plans for the character
\* at position i in a given state, and how many characters it takes. In
\* state 0 a quote opens a string, three quotes in a row a triple-quoted one
\* (the handler is called once for the three); in a string its own closing
\* quote, or three of them, plans state 0; in any other state, and for any
\* other character, nothing is planned.
NoPlan == "none"
IsTriple(text, i, q) ==
    i + 2 <= Len(text) /\ text[i] = q /\ text[i + 1] = q /\ text[i + 2] = q
PlanAt(text, i, state) ==
    LET c == text[i]
    IN  CASE state = "0" /\ IsTriple(text, i, DoubleQuote) -> [next |-> "d3", take |-> 3]
          [] state = "0" /\ IsTriple(text, i, SingleQuote) -> [next |-> "s3", take |-> 3]
          [] state = "0" /\ c = DoubleQuote -> [next |-> "d1", take |-> 1]
          [] state = "0" /\ c = SingleQuote -> [next |-> "s1", take |-> 1]
          [] state = "d1" /\ c = DoubleQuote -> [next |-> "0", take |-> 1]
          [] state = "s1" /\ c = SingleQuote -> [next |-> "0", take |-> 1]
          [] state = "d3" /\ IsTriple(text, i, DoubleQuote) -> [next |-> "0", take |-> 3]
          [] state = "s3" /\ IsTriple(text, i, SingleQuote) -> [next |-> "0", take |-> 3]
          [] OTHER -> [next |-> NoPlan, take |-> 1]

\* The handlers of CommentStripper: the state they ask for and what they
\* add to stripped_text.
Handled(next_state, added) == [next_state |-> next_state, added |-> added]
state_0(c, planned_next_state) ==
    IF c = "#" THEN Handled("inside_comment", <<>>)
    ELSE Handled(NoPlan,
                 <<c>> \o (IF planned_next_state = "d3" THEN <<DoubleQuote, DoubleQuote>>
                           ELSE IF planned_next_state = "s3" THEN <<SingleQuote, SingleQuote>>
                           ELSE <<>>))
\* The mutant of C26: the newline that ends a comment is dropped with it.
state_inside_comment_drops_newline(c, planned_next_state) ==
    IF c = "nl" THEN Handled("0", <<>>) ELSE Handled(NoPlan, <<>>)
state_inside_comment(c, planned_next_state) ==
    IF c = "nl" THEN Handled("0", <<c>>) ELSE Handled(NoPlan, <<>>)
state_d1(c, planned_next_state) == Handled(NoPlan, <<c>>)
state_s1(c, planned_next_state) == state_d1(c, planned_next_state)
state_d3(c, planned_next_state) ==
    Handled(NoPlan, <<c>> \o (IF planned_next_state = "0"
                                THEN <<DoubleQuote, DoubleQuote>> ELSE <<>>))
state_s3(c, planned_next_state) ==
    Handled(NoPlan, <<c>> \o (IF planned_next_state = "0"
                                THEN <<SingleQuote, SingleQuote>> ELSE <<>>))
HandlerOf(state, c, planned_next_state) ==
    CASE state = "0"  -> state_0(c, planned_next_state)
      [] state = "inside_comment" -> state_inside_comment(c, planned_next_state)
      [] state = "d1" -> state_d1(c, planned_next_state)
      [] state = "s1" -> state_s1(c, planned_next_state)
      [] state = "d3" -> state_d3(c, planned_next_state)
      [] state = "s3" -> state_s3(c, planned_next_state)

\* scan(text): the handler of the state is called for each character the
\* scanner comes to; the state it returns is taken, else the planned one,
\* else the state stays.
RECURSIVE Scan(_, _, _, _)
Scan(text, i, state, stripped_text) ==
    IF i > Len(text) THEN stripped_text
    ELSE LET plan == PlanAt(text, i, state)
             h    == HandlerOf(state, text[i], plan.next)
             next == IF h.next_state # NoPlan THEN h.next_state
                     ELSE IF plan.next # NoPlan THEN plan.next
                     ELSE state
         IN  Scan(text, i + plan.take, next, stripped_text \o h.added)

\* strip_comments(text)
strip_comments(text) == Scan(text, 1, "0", <<>>)

\* parse_module_text strips the comments of a text.
StripComments ==
    /\ px # NoParse /\ px.phase = "text"
    /\ px' = [px EXCEPT !.phase = "stripped", !.stripped = strip_comments(px.text)]
    /\ UNCHANGED <<gdb, ivars, bvars, lvars, rb, mvars, dx, og, rq>>
InitStripper ==
    /\ InitGraphIdle
    /\ use_transactions = TRUE
    /\ InitLoaderIdle /\ rb = NoRelBuild /\ InitManifestIdle
    /\ dx = NoDeducs /\ og = NoOrigins /\ rq = NoRequests
    /\ \E text \in CharsUpTo(MaxChars) :
          px = [text |-> text, phase |-> "text", stripped |-> <<>>]
NextStripper == StripComments
SpecStripper == InitStripper /\ [][NextStripper]_vars

\* ------------------------------------------------------------- RepoLoader
\* Requests to load a repo, served by concurrent handlers. A repo is on
\* disk or not, has a manifest (is built) at WIP and at the release or not;
\* a.b can be cloned from its remote, c.d is a demo repo.
MaxRequests == 3
Handlers == {"h1", "h2"}
LockRepos == {"a.b", "c.d"}
is_remote(repopath) == repopath = "a.b"
is_demo(repopath) == repopath = "c.d"
RepoState(is_dir, built_wip, built_release) ==
    [is_dir |-> is_dir, built_wip |-> built_wip, built_release |-> built_release]
has_manifest(repo, is_wip) == IF is_wip THEN repo.built_wip ELSE repo.built_release

\* A RepoLoader as __init__ leaves it; implicated_repopaths is empty.
RepoLoader ==
    [pc |-> "idle", repopath |-> "", is_wip |-> FALSE,
     will_return_model_immediately |-> FALSE, will_scan |-> FALSE,
     will_build |-> FALSE, will_clone |-> FALSE, will_make_demo |-> FALSE,
     implicated_repopaths |-> {}, locks |-> {}]

\* The mutant of C28: a plan to build alone needs no lock.
need_lock_unless_build(self) == self.will_clone \/ self.will_make_demo
need_lock(self) == self.will_build \/ self.will_clone \/ self.will_make_demo

maybe_take_async_action(self, repo, repopath, is_wip, doBuild, doClone) ==
    LET is_present == repo.is_dir
        planned ==
            IF is_present
              THEN [self EXCEPT !.will_scan = is_wip, !.will_build = doBuild]
            ELSE IF is_demo(repopath)
              THEN [self EXCEPT !.will_make_demo = TRUE, !.will_build = TRUE]
            ELSE IF is_remote(repopath) /\ doClone
              THEN [self EXCEPT !.will_clone = TRUE, !.will_build = doBuild]
            ELSE self
    IN  IF need_lock(planned)
          THEN [planned EXCEPT !.implicated_repopaths = {repopath}]
          ELSE planned

compute_implicated_repopaths(self, repo, is_privileged, doBuild, doClone) ==
    LET is_wip == self.is_wip
        is_built == repo.is_dir /\ has_manifest(repo, is_wip)
    IN  IF is_privileged
          THEN IF is_built
                 THEN [self EXCEPT !.will_scan = is_wip,
                                   !.will_return_model_immediately = TRUE]
                 ELSE maybe_take_async_action(self, repo, self.repopath, is_wip,
                                              doBuild, doClone)
        ELSE IF is_wip THEN self
        ELSE IF is_built
          THEN [self EXCEPT !.will_return_model_immediately = TRUE]
        ELSE self

OtherVars == <<gdb, ivars, bvars, lvars, rb, mvars, dx, og, px>>

\* A request arrives at a handler: confirm, then
\* compute_implicated_repopaths.
Request(h, repopath, is_wip, is_privileged, doBuild, doClone) ==
    /\ rq.served < MaxRequests
    /\ rq.handlers[h].pc = "idle"
    /\ LET self == [RepoLoader EXCEPT !.repopath = repopath, !.is_wip = is_wip,
                                      !.pc = "process"]
       IN  rq' = [rq EXCEPT !.served = @ + 1,
                     !.handlers[h] = compute_implicated_repopaths(
                         self, rq.repos[repopath], is_privileged, doBuild, doClone)]
    /\ UNCHANGED OtherVars

\* The request layer takes the named lock of every implicated repopath
\* before it lets the handler go ahead.
LockHeld(repopath) == \E h \in Handlers : repopath \in rq.handlers[h].locks
AcquireLocks(h) ==
    /\ rq.handlers[h].pc = "process"
    /\ \A r \in rq.handlers[h].implicated_repopaths : ~LockHeld(r)
    /\ rq' = [rq EXCEPT !.handlers[h].pc = "go_ahead",
                        !.handlers[h].locks = rq.handlers[h].implicated_repopaths]
    /\ UNCHANGED OtherVars

\* go_ahead up to rebuild: the scan and the model, or the clone and the
\* demo repo.
GoAhead(h) ==
    /\ rq.handlers[h].pc = "go_ahead"
    /\ LET self == rq.handlers[h]
       IN  IF self.will_return_model_immediately
             THEN rq' = [rq EXCEPT !.handlers[h].pc = "done"]
             ELSE rq' = [rq EXCEPT !.handlers[h].pc = "rebuild",
                           !.repos[self.repopath].is_dir =
                               @ \/ self.will_clone \/ self.will_make_demo]
    /\ UNCHANGED OtherVars

\* go_ahead: if self.will_build: self.rebuild(); build_module and
\* build_release call build_write_index.
Rebuild(h) ==
    /\ rq.handlers[h].pc = "rebuild"
    /\ rq' = [rq EXCEPT !.handlers[h].pc =
                  IF rq.handlers[h].will_build THEN "build_write_index" ELSE "done"]
    /\ UNCHANGED OtherVars

\* build_write_index returns: the repo has its manifest at the version.
BuildReturns(h) ==
    /\ rq.handlers[h].pc = "build_write_index"
    /\ LET self == rq.handlers[h]
       IN  rq' = [rq EXCEPT !.handlers[h].pc = "done",
                     !.repos[self.repopath] =
                         IF self.is_wip THEN [@ EXCEPT !.built_wip = TRUE]
                         ELSE [@ EXCEPT !.built_release = TRUE]]
    /\ UNCHANGED OtherVars

\* The request is over: the request layer releases its locks.
ReleaseLocks(h) ==
    /\ rq.handlers[h].pc = "done"
    /\ rq' = [rq EXCEPT !.handlers[h] = RepoLoader]
    /\ UNCHANGED OtherVars

InitLock ==
    /\ InitGraphIdle
    /\ use_transactions = TRUE
    /\ InitLoaderIdle /\ rb = NoRelBuild /\ InitManifestIdle
    /\ dx = NoDeducs /\ og = NoOrigins /\ px = NoParse
    /\ \E present \in BOOLEAN :
          rq = [served |-> 0,
                handlers |-> [h \in Handlers |-> RepoLoader],
                repos |-> [r \in LockRepos |->
                             RepoState(present /\ r = "a.b", FALSE, FALSE)]]
NextLock ==
    \/ \E h \in Handlers, repopath \in LockRepos,
          is_wip, is_privileged, doBuild, doClone \in BOOLEAN :
             Request(h, repopath, is_wip, is_privileged, doBuild, doClone)
    \/ \E h \in Handlers : AcquireLocks(h)
    \/ \E h \in Handlers : GoAhead(h)
    \/ \E h \in Handlers : Rebuild(h)
    \/ \E h \in Handlers : BuildReturns(h)
    \/ \E h \in Handlers : ReleaseLocks(h)
SpecLock == InitLock /\ [][NextLock]_vars

\* The loader while the file of a module is edited: the module a.b.m is
\* loaded at WIP again and again while time passes and the file is written,
\* also in the middle of a load. Every write adds one assignment to the
\* text, so the number of assignments of a text tells how new it is.
MaxWrites == 3
Revision(n) == BodyText([i \in 1..n |-> Assignment(i)])
RevisionOf(text) == Len(BodyOf(text))

\* Time passes, whether or not a load is in progress.
Elapse ==
    /\ clock < MaxClock
    /\ clock' = clock + 1
    /\ UNCHANGED <<fs, released, cache, frames, hists, ldr>>
    /\ UNCHANGED <<gdb, ivars, bvars, rb, mvars, tvars>>

\* The file of a module is written with the next revision of its text,
\* whether or not a load is in progress: its modification time is the
\* time, cut down to a whole second or not.
Modify(modpath) ==
    /\ fs[modpath].exists
    /\ RevisionOf(fs[modpath].text) < MaxWrites
    /\ \E mtime \in {clock, (clock \div TicksPerSec) * TicksPerSec} :
          fs' = [fs EXCEPT ![modpath] =
                    File(Revision(RevisionOf(fs[modpath].text) + 1), mtime)]
    /\ UNCHANGED <<released, cache, frames, hists, clock, ldr>>
    /\ UNCHANGED <<gdb, ivars, bvars, rb, mvars, tvars>>

InitEdit ==
    /\ InitGraphIdle
    /\ use_transactions = TRUE
    /\ fs = [m \in Modpaths |->
               IF m = "a.b.m" THEN File(Revision(0), 0) ELSE NoFile]
    /\ released = [r \in Repos |-> NoRelease]
    /\ cache = EmptyCache
    /\ frames = <<>>
    /\ hists = <<>>
    /\ clock = 0
    /\ ldr = NoLoad
    /\ rb = NoRelBuild
    /\ InitManifestIdle
    /\ InitOthersIdle
NextEdit ==
    \/ \E caching \in CachePolicies :
          LoadModule("a.b.m", WIP_TAG, caching, FALSE, EmptyText, FALSE)
    \/ Enter
    \/ Finish
    \/ Elapse
    \/ Modify("a.b.m")
SpecEdit == InitEdit /\ [][NextEdit]_vars

\* The loader while an imported module is edited: a.b.m imports a.b.n, whose
\* file is written, between loads, with one revision of its text after the
\* other. The files were last written more than a second before the start.
LongAgo == 0 - (TicksPerSec + 1)
Edit(modpath) ==
    /\ frames = <<>>
    /\ Modify(modpath)
InitReimport ==
    /\ InitGraphIdle
    /\ use_transactions = TRUE
    /\ fs = [m \in Modpaths |->
               CASE m = "a.b"   -> File(EmptyText, LongAgo)
                 [] m = "a.b.m" -> File(Text(<<"a.b.n">>, NoProp), LongAgo)
                 [] m = "a.b.n" -> File(Revision(0), LongAgo)
                 [] OTHER -> NoFile]
    /\ released = [r \in Repos |-> NoRelease]
    /\ cache = EmptyCache
    /\ frames = <<>>
    /\ hists = <<>>
    /\ clock = 0
    /\ ldr = NoLoad
    /\ rb = NoRelBuild
    /\ InitManifestIdle
    /\ InitOthersIdle
NextReimport ==
    \/ \E modpath \in {"a.b.m", "a.b.n"}, caching \in CachePolicies :
          LoadModule(modpath, WIP_TAG, caching, FALSE, EmptyText, FALSE)
    \/ LoaderSteps
    \/ Tick
    \/ Edit("a.b.n")
SpecReimport == InitReimport /\ [][NextReimport]_vars

\* --------------------------------------------- the top level of a module
\* The entities a module text defines at its top level, in order: each is
\* a deduction, an annotation, a definition or an assignment, and has a
\* name. The rule handlers of the ModuleLoader record each in the module
\* as soon as it is transformed.
MaxTop == 3
TopKinds == {"deduc", "anno", "defn", "tla"}
TopEntity(kind, name) == [kind |-> kind, name |-> name]
TopTexts(n) ==
    UNION {[1..k -> {TopEntity(kind, name) :
                        kind \in TopKinds, name \in MemberNames}] : k \in 0..n}

\* PfscObj.__setitem__: self._module[name] = item
setitem_banning_duplicates(items, name, item) ==
    IF name \in DOMAIN items THEN [error |-> Duplicate, items |-> items]
    ELSE [error |-> "none", items |-> (name :> item) @@ items]
setitem(items, name, item) ==
    [error |-> "none", items |-> (name :> item) @@ items]

\* ModuleLoader.deduc, anno, defn and tla on the top-level entities of a
\* text, first to last: self._module[name] = entity.
RECURSIVE RecordTop(_, _)
RecordTop(text, items) ==
    IF text = <<>> THEN [error |-> "none", items |-> items]
    ELSE LET set == setitem(items, Head(text).name, Head(text))
         IN  IF set.error # "none" THEN set
             ELSE RecordTop(Tail(text), set.items)

\* ModuleLoader.module: nothing is left to be recorded; set_contents gets
\* an empty list and the names the module has.
ModuleLoader_module(text) ==
    LET recorded == RecordTop(text, <<>>)
        items_to_be_recorded == <<>>
        existing_names == DOMAIN recorded.items
        error == IF recorded.error # "none" THEN recorded.error
                 ELSE set_contents(items_to_be_recorded, existing_names)
    IN  [error |-> error, items |-> recorded.items]

TransformModule ==
    /\ px # NoParse /\ px.phase = "text"
    /\ px' = [px EXCEPT !.phase = "module",
                        !.module = ModuleLoader_module(px.text)]
    /\ UNCHANGED <<gdb, ivars, bvars, lvars, rb, mvars, dx, og, rq>>
InitTop ==
    /\ InitGraphIdle
    /\ use_transactions = TRUE
    /\ InitLoaderIdle /\ rb = NoRelBuild /\ InitManifestIdle
    /\ dx = NoDeducs /\ og = NoOrigins /\ rq = NoRequests
    /\ \E text \in TopTexts(MaxTop) :
          px = [text |-> text, phase |-> "text",
                module |-> [error |-> "none", items |-> <<>>]]
NextTop == TransformModule
SpecTop == InitTop /\ [][NextTop]_vars

\* -------------------------------------------------------------- properties
ContentNodes == {n \in gdb.nodes : IsContent(n)}

ReleaseAt(repo, v) ==
    LET ms == {m \in Majors : m <= v /\ content[repo][m] # NotBuilt}
    IN  IF ms = {} THEN NoProp ELSE CHOOSE m \in ms : \A k \in ms : k <= m

PresentAt(lp, v) ==
    /\ ReleaseAt(RepoOf(lp), v) # NoProp
    /\ lp \in content[RepoOf(lp)][ReleaseAt(RepoOf(lp), v)]

\* C2: for every numbered version v and every libpath present at v, exactly
\* one node of that libpath has major <= v < cut; later builds cut nodes but
\* never take this node away.
C2_ExactlyOneLive ==
    \A v \in Majors, lp \in Libpaths :
        PresentAt(lp, v) =>
            Cardinality({n \in ContentNodes : n.libpath = lp /\ Covers(n, v)}) = 1

\* A libpath present at version 0 and gone at the last release, after a
\* higher major and a WIP build were indexed.
C2_Witness ==
    /\ \E lp \in Libpaths : PresentAt(lp, 0) /\ ~PresentAt(lp, MaxMajor)
    /\ \E n \in ContentNodes : n.major = WIP_TAG
    /\ \E n \in ContentNodes : n.major = 0 /\ n.cut \in Majors /\ n.cut > 0

EdgesOf(type) == {e \in gdb.edges : e.type = type}

WipFrame(g, h) ==
    /\ \A n \in g.nodes : n.major \in Majors =>
          \E m \in h.nodes : /\ m.id = n.id /\ m.libpath = n.libpath
                             /\ m.major = n.major
                             /\ (n.cut \in Majors => m.cut = n.cut)
    /\ \A m \in h.nodes : m.cut \in Majors =>
          \E n \in g.nodes : n.id = m.id /\ n.cut = m.cut
    /\ \A e \in g.edges : e.cut \in Majors => e \in h.edges
    /\ \A e \in h.edges : e.cut \in Majors => e \in g.edges
    /\ \A v \in Majors :
          {n.id : n \in {x \in g.nodes : Covers(x, v)}}
             = {n.id : n \in {x \in h.nodes : Covers(x, v)}}

\* undo_wip_cut on the ids a and b: cut goes back to infinity on those of
\* them whose cut is WIP, and nothing else changes.
UndoExact(a, b) ==
    LET hn == undo_wip_cut_nodes(gdb, {a})
        he == undo_wip_cut_relns(gdb, {b})
    IN  /\ hn.edges = gdb.edges
        /\ he.nodes = gdb.nodes
        /\ hn.nodes = {n \in gdb.nodes : ~(n.id = a /\ n.cut = WIP_TAG)}
              \cup {[n EXCEPT !.cut = INF_TAG] :
                       n \in {x \in gdb.nodes : x.id = a /\ x.cut = WIP_TAG}}
        /\ he.edges = {e \in gdb.edges : ~(RelnId(e) = b /\ e.cut = WIP_TAG)}
              \cup {[e EXCEPT !.cut = INF_TAG] :
                       e \in {x \in gdb.edges : RelnId(x) = b /\ x.cut = WIP_TAG}}

Terminated == pc = "idle" /\ call.api = "build_write_index"

\* Every artifact of the Builder's build is in the build directory.
ArtifactsComplete ==
    /\ build_dir.manifest = builder.manifest
    /\ builder.modules > 0 =>
          /\ build_dir.src = builder.timestamp
          /\ build_dir.dg = builder.timestamp
          /\ build_dir.anno = builder.timestamp
          /\ (builder.version = WIP_TAG => build_dir.lib = builder.timestamp)

ArtifactsUntouched == call.writes = 0 /\ build_dir = call.pre.build_dir

BuildErrors == {"root", "module", "validate"}

\* C6 as stated: in no state in which build_write_index has terminated is
\* the index committed for the build while its artifacts are missing,
\* cleared or partly written, nor the artifacts touched while the index is
\* not committed.
C6_NoPartialResult ==
    Terminated =>
        /\ call.index_returned => ArtifactsComplete
        /\ ~call.index_returned => ArtifactsUntouched

\* C6, amended: when build_write_index returns normally the index is
\* committed and every artifact written; when Build fails, or Index fails
\* under a writer with transactions, neither the index nor an artifact has
\* changed; when a write fails the index is committed already, whatever the
\* state of the artifacts.
C6_PartialOnlyAfterWriteFailure ==
    Terminated =>
        /\ call.error = "none" => call.index_returned /\ ArtifactsComplete
        /\ call.error \in BuildErrors =>
              gdb = call.pre.gdb /\ ArtifactsUntouched
        /\ call.error = "index" =>
              /\ ArtifactsUntouched
              /\ use_transactions => gdb = call.pre.gdb
        /\ call.error = "write" => call.index_returned

\* A write has failed after the index was committed and the build directory
\* cleared: the index has the build, the dashgraphs are gone.
C6_Witness ==
    /\ Terminated /\ call.error = "write"
    /\ gdb # call.pre.gdb
    /\ call.pre.build_dir.dg # 0 /\ build_dir.dg = 0
    /\ build_dir.src = builder.timestamp

InWrite == pc \in {"clear_build_dirs"} \cup WriteSteps

NumWrites == IF builder.version = WIP_TAG THEN 5 ELSE 4

BuildDoesNothing ==
    /\ call.loads = 0
    /\ builder = call.pre.builder
    /\ pc \in {"idle", "build"}
    /\ call.checkouts = 0 /\ worktree.stack = <<>>

InScope ==
    pc \in {"check_root_declarations", "compute_mm_closure", "walk",
            "handle_pfsc_module", "cut_add_validate", "compute_origins",
            "merge_manifests", "clear_build_dirs"} \cup WriteSteps

\* C10: module loading, walking, clearing and writing happen while the
\* Builder's version is checked out, and outside build() and write_all(),
\* on every exit path, the repository is at the state it had before.
C10_ScopedCheckout ==
    /\ InScope => worktree.head = builder.version
                     /\ worktree.stack = <<call.pre.head>>
    /\ (~InScope /\ call.n > 0) =>
          worktree.head = call.pre.head /\ worktree.stack = <<>>

\* A write has raised in write_all of a release build, after both scopes
\* were entered: the working tree is back at the other version.
C10_Witness ==
    /\ pc = "idle" /\ call.error = "write" /\ call.checkouts = 2
    /\ builder.version # call.pre.head
    /\ worktree.head = call.pre.head

\* The outermost load_module call has returned or raised; it was made with
\* no text, for a module that was in the cache; it was served from the cache.
LoadDone == frames = <<>> /\ ldr.ret.kind # "none"
CachedLoad == LoadDone /\ ~ldr.given /\ ldr.pre # NoEntry
Reused ==
    /\ ldr.ret.kind = "returned"
    /\ ldr.ret.module = ldr.pre.module
    /\ ldr.reads = {}

\* C11 (as claimed): a load of a cached module of a numbered release, with
\* no text given, returns the cached module and reads nothing, whatever the
\* cache policy.
C11_ReleaseReusedUnderAnyPolicy ==
    (CachedLoad /\ ldr.version # WIP_TAG) => Reused

\* C11 (amended): a load of a cached module of a numbered release, with no
\* text given, returns the cached module and reads nothing under the
\* policies ALWAYS and TIME; under NEVER the module is read again.
C11_ReleaseReusedUnlessNever ==
    /\ (CachedLoad /\ ldr.version # WIP_TAG /\ ldr.caching # NEVER) => Reused
    /\ (CachedLoad /\ ldr.version # WIP_TAG /\ ldr.caching = NEVER)
          => ldr.reads = {verspath(ldr.modpath, ldr.version)}

C11_Witness ==
    /\ CachedLoad /\ ldr.version = ReleaseV /\ ldr.caching = TIME /\ Reused
    /\ ldr.src.mtime + TicksPerSec >= ldr.pre.read_time

\* C12 (as claimed): under TIME, a load of a cached WIP module whose file is
\* there, with no text given, is served from the cache if and only if the
\* file's modification time plus one second is at most the cached read
\* time; otherwise the module is read again and the cache entry replaced.
C12_ReusedIffGraceAtMost ==
    (CachedLoad /\ ldr.caching = TIME /\ ldr.version = WIP_TAG /\ ldr.src.exists)
       => IF ldr.src.mtime + TicksPerSec <= ldr.pre.read_time
            THEN Reused
            ELSE /\ ldr.reads = {verspath(ldr.modpath, ldr.version)}
                 /\ cache[verspath(ldr.modpath, ldr.version)].module = ldr.ret.module

\* The module that the first import statement of a module names, and the
\* modules reached from a module along first imports.
FirstImport(modpath) ==
    IF fs[modpath].exists /\ fs[modpath].text.imports # <<>>
      THEN {Head(fs[modpath].text.imports)} ELSE {}
RECURSIVE ImportChain(_, _)
ImportChain(S, n) ==
    IF n = 0 THEN S
    ELSE ImportChain(S \cup UNION {FirstImport(m) : m \in S}, n - 1)
ImportsLeadBack(modpath) ==
    modpath \in ImportChain(FirstImport(modpath), Cardinality(Modpaths))

\* C13: a load, with nothing cached, of a module whose imports lead back to
\* it (A imports B ... imports A, or A imports from A) raises
\* CYCLIC_IMPORT_ERROR, and no load ever ends in the interpreter giving up
\* an unbounded recursion.
C13_CyclicImportDetected ==
    /\ LoadDone => ldr.ret.code # "RecursionError"
    /\ (LoadDone /\ ldr.cold /\ ImportsLeadBack(ldr.modpath))
          => (ldr.ret.kind = "raised" /\ ldr.ret.code = "CYCLIC_IMPORT_ERROR")


ReleaseBuildEnded ==
    is_release_build(rb.version) /\ rb.phase \in {"done", "failed"}
OtherRepoAtWip(vps) ==
    \E vp \in vps : get_repo_part(vp[1]) # BuiltRepo /\ vp[2] = WIP_TAG

\* C14: in a release build that succeeds no module of another repo is
\* loaded at WIP, and no module of the build has imported, directly or
\* through other modules, a module of another repo at WIP; a release build
\* of a root module whose dependencies have a WIP value fails with
\* NO_WIP_IMPORTS_IN_NUMBERED_RELEASES.
C14_NoWipOfOtherRepo ==
    ReleaseBuildEnded =>
        /\ rb.phase = "done" =>
              /\ ~OtherRepoAtWip(rb.loads)
              /\ \A module \in rb.modules : ~OtherRepoAtWip(module.imported)
        /\ (rb.root.exists /\ rb.root.text.deps = WIP_TAG) =>
              rb.error = "NO_WIP_IMPORTS_IN_NUMBERED_RELEASES"

HasChangeLog(file) == file.exists /\ file.text.change_log

\* C15: check_root_declarations raises MISSING_REPO_CHANGE_LOG exactly when
\* the build is a release whose major increments and is not zero and the
\* root module declares no change log or does not exist.
C15_ChangeLogRequiredIff ==
    rb.phase \in {"walk", "failed"} =>
        (rb.error = "MISSING_REPO_CHANGE_LOG"
            <=> /\ is_release_build(rb.version)
                /\ rb.is_major_inc
                /\ ~is_major_zero(rb.version)
                /\ ~HasChangeLog(rb.root))

\* The nodes of the tree below a node, the node included.
RECURSIVE Below(_, _)
Below(heap, node) ==
    {node} \cup UNION {Below(heap, heap[node].children[i]) :
                          i \in 1..Len(heap[node].children)}
TreeNodes(m) == Below(m.heap, m.root_node)
NodeOf(m, id) == CHOOSE node \in TreeNodes(m) : m.heap[node].id = id
HasNode(m, id) == \E node \in TreeNodes(m) : m.heap[node].id = id
Merged == mlast # NoMerge /\ mlast.op = "merge"
\* The node that came in for the built libpath.
Incoming == mlast.other.lookup[mlast.built_libpath]
IsAncestor(id, libpath) ==
    id # libpath /\ \E i \in 1..Len(path_parts(libpath)) : path_parts(libpath)[i] = id

\* C16: for every Manifest, with any build info or none,
\* build_manifest_from_dict(build_dict()) succeeds and gives a Manifest with
\* the same tree and the same build info.
C16_RoundTrip ==
    (mlast # NoMerge /\ mlast.op = "round_trip") =>
        /\ mlast.result.error = "none"
        /\ TreeOf(mlast.result.manifest.heap, mlast.result.manifest.root_node)
              = TreeOf(mlast.pre.heap, mlast.pre.root_node)
        /\ mlast.result.manifest.build_info = mlast.pre.build_info

\* C17: a merge into a tree that has a node A with the id of the built
\* libpath succeeds and puts the incoming node in A's place among the
\* children of A's parent, or makes it the root if A was the root; after a
\* non-recursive build A's children of type MODULE are children of the new
\* node, in their order, and A's other children are not; after a recursive
\* build none of A's children is in the tree.
C17_ReplacedInPlace ==
    (Merged /\ HasNode(mlast.pre, mlast.built_libpath)) =>
        LET pre == mlast.pre
            A == NodeOf(pre, mlast.built_libpath)
            parent == pre.heap[A].parent
            was == pre.heap[A].children
            now == mf.heap[Incoming].children
        IN  /\ mlast.error = "none"
            /\ IF A = pre.root_node THEN mf.root_node = Incoming
               ELSE /\ mf.root_node = pre.root_node
                    /\ parent \in TreeNodes(mf)
                    /\ mf.heap[parent].children =
                          [i \in 1..Len(pre.heap[parent].children) |->
                              IF pre.heap[parent].children[i] = A THEN Incoming
                              ELSE pre.heap[parent].children[i]]
            /\ Incoming \in TreeNodes(mf)
            /\ IF mlast.recursive
                 THEN \A i \in 1..Len(was) : was[i] \notin TreeNodes(mf)
                 ELSE SelectSeq(now, LAMBDA c : \E i \in 1..Len(was) : was[i] = c)
                         = get_submodules(pre.heap, A)

\* C18: a merge into a tree that has no node for the built libpath B but a
\* node A for a proper ancestor of B succeeds; afterwards A has its former
\* children in their order, and after them the incoming node for the next
\* libpath towards B, from which a chain of incoming nodes for the libpaths
\* between A and B leads to the incoming node of B with its subtree.
C18_AttachedBelowAncestor ==
    (Merged /\ ~HasNode(mlast.pre, mlast.built_libpath)
            /\ \E id \in ModuleIds : IsAncestor(id, mlast.built_libpath)
                                       /\ HasNode(mlast.pre, id)) =>
        LET pre == mlast.pre
            parts == path_parts(mlast.built_libpath)
            a == CHOOSE i \in 1..Len(parts) :
                    /\ HasNode(pre, parts[i])
                    /\ \A j \in (i + 1)..Len(parts) : ~HasNode(pre, parts[j])
            A == NodeOf(pre, parts[a])
            between == [i \in 1..(Len(parts) - a) |-> mlast.other.lookup[parts[a + i]]]
        IN  /\ mlast.error = "none"
            /\ A \in TreeNodes(mf)
            /\ mf.heap[A].children = Append(pre.heap[A].children, between[1])
            /\ \A i \in 1..(Len(between) - 1) :
                  \E j \in 1..Len(mf.heap[between[i]].children) :
                     mf.heap[between[i]].children[j] = between[i + 1]
            /\ TreeOf(mf.heap, Incoming) = TreeOf(mlast.other.heap, Incoming)

\* C19 as claimed: a merge of a recursive build of B removes the build info
\* of B and of every proper ancestor of B, and then sets that of B.
C19_AncestorsRemoved ==
    (Merged /\ mlast.recursive) =>
        /\ mf.build_info[mlast.built_libpath] = mlast.other.build_info[mlast.built_libpath]
        /\ \A id \in ModuleIds :
              IsAncestor(id, mlast.built_libpath) => mf.build_info[id] = NoInfo

\* C19 as the code has it: a merge of a recursive build of B removes the
\* build info of every module below B, keeps that of every proper ancestor
\* of B, and sets that of B.
C19_DescendantsRemoved ==
    (Merged /\ mlast.recursive) =>
        /\ mf.build_info[mlast.built_libpath] = mlast.other.build_info[mlast.built_libpath]
        /\ \A id \in ModuleIds :
              /\ IsAncestor(mlast.built_libpath, id) => mf.build_info[id] = NoInfo
              /\ IsAncestor(id, mlast.built_libpath) =>
                    mf.build_info[id] = mlast.pre.build_info[id]
\* A recursive build of a.b came into a Manifest that had build info of the
\* ancestor a and of the descendant a.b.c.
C19_Witness ==
    /\ Merged /\ mlast.recursive /\ mlast.built_libpath = Lp_a_b
    /\ mlast.pre.build_info[Lp_a] # NoInfo
    /\ mlast.pre.build_info[Lp_a_b_c] # NoInfo
    /\ mf.build_info[Lp_a] # NoInfo
    /\ mf.build_info[Lp_a_b_c] = NoInfo

\* C20: a merge of a recursive build of B removes the build info of B and
\* of the libpaths that are B followed by a dot and more, and of no other
\* libpath (not of ancestors, siblings or libpaths like a.b1 for a.b); a
\* merge of a non-recursive build removes none. Either sets that of B.
C20_BuildInfoFrame ==
    Merged =>
        \A id \in ModuleIds :
            mf.build_info[id] =
                IF id = mlast.built_libpath
                  THEN mlast.other.build_info[mlast.built_libpath]
                ELSE IF mlast.recursive /\ IsAncestor(mlast.built_libpath, id)
                  THEN NoInfo
                ELSE mlast.pre.build_info[id]
\* A recursive build of a.b came into a Manifest that had build info of
\* a.b.c and of a.b1: the first is gone, the second is there.
C20_Witness ==
    /\ Merged /\ mlast.recursive /\ mlast.built_libpath = Lp_a_b
    /\ mlast.pre.build_info[Lp_a_b_c] # NoInfo
    /\ mlast.pre.build_info[Lp_a_b1] # NoInfo
    /\ mf.build_info[Lp_a_b_c] = NoInfo
    /\ mf.build_info[Lp_a_b1] = mlast.pre.build_info[Lp_a_b1]

\* The place of a deduction in the sequence of add_deduc calls, 0 if none.
AddedAt(dlp) ==
    IF \E i \in 1..Len(dx.added) : dx.added[i] = dlp
      THEN CHOOSE i \in 1..Len(dx.added) : dx.added[i] = dlp
      ELSE 0
\* The deductions of the repo: <<libpath, libpath of the target deduction>>.
Expansions ==
    {<<DeducLibpath(m, dx.items[m][i].name), dx.items[m][i].target>> :
        <<m, i>> \in {mi \in DeducModules \X (1..MaxDeducs) :
                         /\ mi[2] <= Len(dx.items[mi[1]])
                         /\ dx.items[mi[1]][mi[2]].target # NoTarget}}

\* C21: for every pair of deductions E and D added during one build where
\* E expands D, add_deduc for D happens before add_deduc for E, whether D
\* and E are defined in the same module or in different modules.
C21_ExpandsOrder ==
    dx # NoDeducs =>
        \A ed \in Expansions :
            AddedAt(ed[1]) # 0 /\ AddedAt(ed[2]) # 0
                => AddedAt(ed[2]) < AddedAt(ed[1])

RECURSIVE HasDuplicate(_)
HasDuplicate(contents) ==
    \/ \E i, j \in 1..Len(contents) : i # j /\ contents[i].name = contents[j].name
    \/ \E i \in 1..Len(contents) : HasDuplicate(contents[i].contents)
\* The text that the last call of load_module parsed, if it parsed one.
ParsedByLoad ==
    ldr # NoLoad /\ ldr.ret # NoResult
        /\ (ldr.given \/ verspath(ldr.modpath, ldr.version) \in ldr.reads)
ParsedText == IF ldr.given THEN ldr.text ELSE ldr.src.text

\* C23: when load_module parses a text in which one scope (the body of a
\* deduction, of a sub-deduction or of a node) declares two members of the
\* same name, whatever their kinds, the call raises
\* DUPLICATE_DEFINITION_IN_PFSC_MODULE: no module is returned, and the
\* cache is as it was before the call.
C23_DuplicateMemberFails ==
    (ParsedByLoad /\ HasDuplicate(BodyOf(ParsedText))) =>
        /\ ldr.ret.kind = "raised"
        /\ ldr.ret.code = Duplicate
        /\ ldr.ret.module = NoModule
        /\ cache[verspath(ldr.modpath, ldr.version)] = ldr.pre
\* A node and an assignment of one name in the body of a node.
C23_Witness ==
    /\ ParsedByLoad
    /\ ldr.ret.kind = "raised"
    /\ ldr.pre # NoEntry
    /\ \E i \in 1..Len(BodyOf(ParsedText)) :
          LET inner == BodyOf(ParsedText)[i].contents
          IN  /\ BodyOf(ParsedText)[i].kind = "Node"
              /\ Len(inner) = 2
              /\ inner[1].kind # inner[2].kind
              /\ inner[1].name = inner[2].name

\* C24: a load_module call with fail_gracefully=True, no text given, whose
\* libpath does not point to a .pfsc source at the requested version (WIP
\* or a numbered release), returns None and does not raise.
C24_GracefulNone ==
    (ldr.ret # NoResult /\ ldr.graceful /\ ~ldr.given /\ ~ldr.src.exists)
        => (ldr.ret.kind = "returned" /\ ldr.ret.module = NoModule)

\* The line of a text that holds position p.
LineOf(text, p) == 1 + CountLines(SubSeq(text, 1, p - 1))
\* The positions of the modified text that hold non-annotation content:
\* text of c0 or of a t chunk, other than a newline.
ContentPositions(text, bc) ==
    LET blocks == Chunks(text).blocks
    IN  {p \in 1..Len(bc.kept) :
            /\ text[bc.kept[p]] # "nl"
            /\ \A q \in 1..Len(blocks) :
                  ~(bc.kept[p] \in blocks[q].a.lo..blocks[q].a.hi)}

\* C25: for every line L of the chunker's modified text,
\* map_line_num_to_orig(L) is the line of the original text that holds the
\* non-annotation content of line L.
C25_LineMap ==
    (px # NoParse /\ px.phase = "error")
        => \A p \in ContentPositions(px.text, px.bc) :
              LineOf(get_modified_text(px.text, px.bc), p) = px.at
                 => px.reported = LineOf(px.text, px.bc.kept[p])

\* The lexical state before position i: code, a comment, or a string
\* literal with its quote and the length (1 or 3) of its delimiter.
Lex(kind, quote, n) == [kind |-> kind, quote |-> quote, n |-> n]
InCode == Lex("code", "", 0)
InsideComment == Lex("comment", "", 0)
RECURSIVE LexBefore(_, _, _, _)
LexBefore(text, i, from, lex) ==
    IF from >= i THEN [lex |-> lex, at |-> from]
    ELSE LET c == text[from]
             three(q) == from + 2 <= Len(text) /\ text[from] = q
                            /\ text[from + 1] = q /\ text[from + 2] = q
         IN  IF lex = InCode
               THEN IF c = "#" THEN LexBefore(text, i, from + 1, InsideComment)
                    ELSE IF c \in {"d", "s"}
                      THEN IF three(c) THEN LexBefore(text, i, from + 3, Lex("string", c, 3))
                           ELSE LexBefore(text, i, from + 1, Lex("string", c, 1))
                    ELSE LexBefore(text, i, from + 1, InCode)
             ELSE IF lex = InsideComment
               THEN LexBefore(text, i, from + 1, IF c = "nl" THEN InCode ELSE lex)
             ELSE IF lex.n = 1
               THEN LexBefore(text, i, from + 1, IF c = lex.quote THEN InCode ELSE lex)
             ELSE IF three(lex.quote) THEN LexBefore(text, i, from + 3, InCode)
                  ELSE LexBefore(text, i, from + 1, lex)
\* Position i is part of a comment: a "#" outside any string, or a
\* character after one and before the next newline.
InComment(text, i) ==
    LET b == LexBefore(text, i, 1, InCode)
    IN  IF b.at > i THEN FALSE
        ELSE \/ b.lex = InCode /\ text[i] = "#"
             \/ b.lex = InsideComment /\ text[i] # "nl"
\* A "#" at position i is inside a string literal.
HashInString(text, i) ==
    LET b == LexBefore(text, i, 1, InCode)
    IN  text[i] = "#" /\ b.at = i /\ b.lex.kind = "string"
SelectKept(text) ==
    LET keep == {i \in 1..Len(text) : ~InComment(text, i)}
        F[n \in 0..Len(text)] ==
            IF n = 0 THEN <<>>
            ELSE IF n \in keep THEN Append(F[n - 1], text[n]) ELSE F[n - 1]
    IN  F[Len(text)]

\* C26: strip_comments removes exactly the characters from a "#" outside any
\* single- or triple-quoted string up to, not including, the next newline,
\* and leaves every other character, all newlines and string contents
\* included, as it is; the number of newlines is that of the text.
C26_StripComments ==
    (px # NoParse /\ px.phase = "stripped")
        => /\ px.stripped = SelectKept(px.text)
           /\ CountLines(px.stripped) = CountLines(px.text)
\* A text with a comment and with a "#" inside a triple-quoted string has
\* been stripped.
C26_Witness ==
    /\ px # NoParse /\ px.phase = "stripped"
    /\ \E i \in 1..Len(px.text) :
          /\ HashInString(px.text, i)
          /\ LexBefore(px.text, i, 1, InCode).lex.n = 3
    /\ px.stripped # px.text

\* The places of the tree below a node: each node with the node whose
\* children list holds it (NoRef for the first) and its index there.
RECURSIVE Places(_, _, _, _)
Places(heap, node, above, index) ==
    {[node |-> node, above |-> above, index |-> index]}
       \cup UNION {Places(heap, heap[node].children[i], node, i - 1) :
                      i \in 1..Len(heap[node].children)}
RowsOf(model) == {model[i] : i \in 1..Len(model)}

\* C27: every row of build_relational_model is the row of one node of the
\* tree: its parent is the id of the node whose child it is (None for the
\* root), its sibling value the node's index among that node's children; it
\* has a terminal flag iff the node is of type MODULE, and the flag is True
\* iff no child of the node is of type MODULE. A recursive model has a row
\* for every node of the tree.
C27_RelationalModel ==
    (mlast # NoMerge /\ mlast.op = "load_model") =>
        LET heap == mlast.pre.heap
            places == Places(heap, mlast.pre.root_node, NoRef, 0)
            RowAt(pl) ==
                [id |-> heap[pl.node].id, sibling |-> pl.index,
                 parent |-> IF pl.above = NoRef THEN NoneId ELSE heap[pl.above].id,
                 type |-> heap[pl.node].type,
                 has_terminal |-> heap[pl.node].type = "MODULE",
                 terminal |-> /\ heap[pl.node].type = "MODULE"
                              /\ \A i \in 1..Len(heap[pl.node].children) :
                                    heap[heap[pl.node].children[i]].type # "MODULE"]
        IN  /\ RowsOf(mlast.model) \subseteq {RowAt(pl) : pl \in places}
            /\ mlast.recursive => RowsOf(mlast.model) = {RowAt(pl) : pl \in places}
            /\ Len(mlast.model) = Cardinality(RowsOf(mlast.model))
\* The model of a merged tree with a module that has submodules and a
\* module that has none has been built.
C27_Witness ==
    /\ mlast # NoMerge /\ mlast.op = "load_model" /\ mlast.recursive
    /\ mlast.pre.merges > 0
    /\ \E r1, r2 \in RowsOf(mlast.model) :
          /\ r1.has_terminal /\ r1.terminal
          /\ r2.has_terminal /\ ~r2.terminal /\ r2.parent # NoneId
    /\ \E r \in RowsOf(mlast.model) : ~r.has_terminal

\* C30: after a merge the lookup index matches the merged tree: for every
\* id, get(id) is the node of that id reachable from root_node, and None
\* if the tree has no node of that id.
C30_LookupRebuilt ==
    (mlast # NoMerge /\ mlast.op = "merge" /\ mlast.error = "none") =>
        LET reachable == {pl.node : pl \in Places(mf.heap, mf.root_node, NoRef, 0)}
        IN  \A id \in NodeIds :
               IF \E n \in reachable : mf.heap[n].id = id
                 THEN mf.lookup[id] \in reachable /\ mf.heap[mf.lookup[id]].id = id
                 ELSE mf.lookup[id] = NoRef

\* The history a call of load_module was entered with: empty for a call
\* from outside and for the load of a root module's dependency info, else
\* the modules of the loads in progress that share the history list.
EntryHistory(fr) ==
    LET top == fr[Len(fr)]
        F[n \in 0..(Len(fr) - 1)] ==
            IF n = 0 THEN <<>>
            ELSE IF fr[n].h = top.h THEN Append(F[n - 1], fr[n].modpath)
            ELSE F[n - 1]
    IN  F[Len(fr) - 1]
\* The innermost call of load_module returns, with a module or with None.
TopReturns ==
    /\ frames # <<>>
    /\ ldr'.ret.kind # "raised"
    /\ \/ frames' = <<>>
       \/ Len(frames') = Len(frames) - 1

\* C29: whenever a load_module call returns, with a module or with None
\* under fail_gracefully, the history has the contents it had on entry.
C29_HistoryRestored ==
    [][TopReturns => hists'[Top.h] = EntryHistory(frames)]_vars

\* A handler is in a build, a clone or the making of a demo repo.
AtWork(h) == rq.handlers[h].pc \in {"go_ahead", "rebuild", "build_write_index"}

\* C28: a RepoLoader that plans to build, clone or make a demo repo has
\* the repo's libpath among its implicated repopaths and holds the repo's
\* lock from before it goes ahead until build_write_index has returned; no
\* two executions of build_write_index on one repo overlap.
C28_OneBuildPerRepo ==
    rq # NoRequests =>
       /\ \A h \in Handlers :
             LET self == rq.handlers[h]
             IN  (self.will_build \/ self.will_clone \/ self.will_make_demo)
                    => /\ self.repopath \in self.implicated_repopaths
                       /\ AtWork(h) => self.repopath \in self.locks
       /\ \A h1, h2 \in Handlers :
             (/\ h1 # h2
              /\ rq.handlers[h1].pc = "build_write_index"
              /\ rq.handlers[h2].pc = "build_write_index")
                 => rq.handlers[h1].repopath # rq.handlers[h2].repopath
\* One handler is in build_write_index on a repo while another, which
\* plans to build the same repo, waits for the lock.
C28_Witness ==
    /\ rq # NoRequests
    /\ \E h1, h2 \in Handlers :
          /\ rq.handlers[h1].pc = "build_write_index"
          /\ rq.handlers[h2].pc = "process"
          /\ rq.handlers[h2].will_build
          /\ rq.handlers[h2].repopath = rq.handlers[h1].repopath

\* The target of a deduction of the repo, by its libpath.
TargetOf(dlp) ==
    LET items == dx.items[dlp[1]]
    IN  items[CHOOSE i \in 1..Len(items) : items[i].name = dlp[2]].target
\* Depth within the module: 0 for a top-level deduction and for one whose
\* target is defined in another module, else 1 + that of the target.
RECURSIVE DepthWithinModule(_)
DepthWithinModule(dlp) ==
    LET tdlp == TargetOf(dlp)
    IN  IF tdlp = NoTarget THEN 0
        ELSE IF tdlp[1] # dlp[1] THEN 0
        ELSE 1 + DepthWithinModule(tdlp)

\* C31: the depth recorded on the CHART node of every deduction of a module
\* is 0 if it is a top-level deduction or its target deduction is defined
\* in another module, and otherwise 1 + the depth of its target deduction.
C31_DepthWithinModule ==
    dx # NoDeducs =>
        \A dlp \in DOMAIN dx.depth : dx.depth[dlp] = DepthWithinModule(dlp)
\* A module with a chain of two expansions has been handled: the last
\* deduction of the chain has depth 2.
C31_Witness ==
    /\ dx # NoDeducs /\ dx.phase = "done"
    /\ \E dlp \in DOMAIN dx.depth :
          /\ dx.depth[dlp] = 2
          /\ TargetOf(TargetOf(dlp)) # NoTarget

\* The place of a name in a sequence of names.
PlaceIn(list, name) == CHOOSE i \in 1..Len(list) : list[i] = name
\* Deduction e of module m expands deduction d of m, directly or through a
\* chain of expansions within m.
RECURSIVE ExpandsWithin(_, _, _)
ExpandsWithin(m, e, d) ==
    LET tdlp == TargetOf(DeducLibpath(m, e))
    IN  /\ tdlp # NoTarget
        /\ tdlp[1] = m
        /\ (tdlp[2] = d \/ ExpandsWithin(m, tdlp[2], d))
\* The expansions of a module: <<E, D>>, E a deduction of module m whose
\* target deduction D is native to m.
NativeExpansions(m) ==
    {ed \in {<<dx.items[m][i].name, dx.items[m][i].target>> : i \in 1..Len(dx.items[m])} :
        ed[2] # NoTarget /\ ed[2][1] = m}
IsPermutation(list, items) ==
    /\ Len(list) = Len(items)
    /\ \A i \in 1..Len(items) : \E j \in 1..Len(list) : list[j] = items[i].name

C33_NeverStale ==
    (LoadDone /\ ldr.caching = TIME /\ ldr.version = WIP_TAG /\ ~ldr.given
       /\ ldr.ret.kind = "returned")
       => RevisionOf(ldr.ret.module.text) >= RevisionOf(ldr.src.text)

\* A load under TIME finds a cached module of an older text, read after the
\* (cut down) modification time of the file, and returns the new text.
C33_Witness ==
    /\ CachedLoad /\ ldr.caching = TIME /\ ldr.ret.kind = "returned"
    /\ RevisionOf(ldr.pre.module.text) < RevisionOf(ldr.src.text)
    /\ ldr.src.mtime < ldr.pre.read_time
    /\ RevisionOf(ldr.ret.module.text) = RevisionOf(ldr.src.text)

\* C37: under the policy TIME load_module never returns a cached module that
\* was built against an older text of a module it imports: when the file of
\* a WIP module that the cached module imported, directly or through other
\* modules, was modified after the cached module was read, the requested
\* module is read and parsed again.
ImportModified ==
    /\ CachedLoad /\ ldr.caching = TIME /\ ldr.version = WIP_TAG
    /\ ldr.ret.kind = "returned"
    /\ \E m \in Modpaths :
          /\ verspath(m, WIP_TAG) \in ldr.pre.module.imported
          /\ fs[m].exists
          /\ fs[m].mtime > ldr.pre.read_time
C37_ReparsedWhenImportModified ==
    [][(frames # <<>> /\ frames' = <<>> /\ ImportModified')
          => verspath(ldr'.modpath, ldr'.version) \in ldr'.reads]_vars

\* C34: when single-build Manifests of modules that the tree has no node
\* of are merged one after another into one Manifest, every merge succeeds
\* and build_dict() afterwards has a node of the module merged and of
\* every id it had before the merge.
C34_MergedModulesStay ==
    (Merged /\ mf.only_new) =>
        /\ mlast.error = "none"
        /\ DictIds(build_dict(mlast.pre).tree_model) \cup {mlast.built_libpath}
              \subseteq DictIds(build_dict(mf).tree_model)

\* C39: a merge that raises MANIFEST_BAD_FORM leaves the receiving Manifest
\* as it was: its build info, its tree and its lookup are those from before
\* the call.
C39_FailedMergeChangesNothing ==
    (mlast # NoMerge /\ mlast.op \in {"merge", "merge_unbuilt"}
       /\ mlast.error = "MANIFEST_BAD_FORM") =>
        /\ mf.build_info = mlast.pre.build_info
        /\ mf.lookup = mlast.pre.lookup
        /\ TreeOf(mf.heap, mf.root_node) = TreeOf(mlast.pre.heap, mlast.pre.root_node)

\* C35: when build() finds nothing to build, build_write_index changes
\* nothing: the index is as before, nothing is cleared or written, and what
\* the build directory had, a manifest stored earlier included, is as it
\* was.
C35_NothingToBuildChangesNothing ==
    (Terminated /\ call.error = "none" /\ builder.shape = "nothing") =>
        /\ gdb = call.pre.gdb
        /\ ArtifactsUntouched

\* C38: during one run of build_write_index the cur_count that the monitor
\* publishes never goes down from one publication to the next and never
\* exceeds max_count, and a run that ends without error ends with 'Done'
\* at max_count.
C38_ProgressMonotone ==
    /\ [][(call.api = "build_write_index" /\ call'.n = call.n
             /\ monitor' # monitor)
            => /\ monitor'.cur_count >= monitor.cur_count
               /\ monitor'.cur_count <= max_count]_vars
    /\ []((Terminated /\ call.error = "none")
            => monitor.message = "Done" /\ monitor.cur_count = max_count)

\* C36: every module that load_module(p, version=V) returns represents the
\* version V when it is returned, also when it comes from the cache after a
\* build has used the cache entry.
C36_RepresentsRequestedVersion ==
    (LoadDone /\ ldr.ret.kind = "returned" /\ ldr.ret.module # NoModule)
        => ldr.ret.module.represented_version = ldr.version

\* C40: a module text in which two top-level entities have one name is
\* rejected with DUPLICATE_DEFINITION_IN_PFSC_MODULE, whatever kinds the
\* two are of.
C40_TopLevelDuplicateRejected ==
    (px # NoParse /\ px.phase = "module"
       /\ \E i, j \in 1..Len(px.text) : i < j /\ px.text[i].name = px.text[j].name)
       => px.module.error = Duplicate
====
